---- MODULE Spec2Model ----
(***************************************************************************)
(* A2UIRenderer (src/src/components/A2UIRenderer.tsx): the session state   *)
(* machine of the renderer and its reconciliation of the root component    *)
(* sequence and the data model against createSurface / updateComponents    *)
(* messages delivered by the transport.                                    *)
(*                                                                         *)
(* The transport (@ainative/ai-kit-a2ui-core/transport) is an external     *)
(* collaborator: the events it emits, the outcome of connect() and of      *)
(* send(), and the value of isConnected are inputs chosen with \E.         *)
(***************************************************************************)
EXTENDS Integers, Sequences, FiniteSets, TLC

VARIABLES
    state,          \* useState<RenderState>                      (line 38)
    components,     \* useState<A2UIComponent[]>                  (line 39)
    dataModel,      \* useState<Record<string, unknown>>          (line 40)
    error,          \* useState<Error | null>                     (line 41)
    transport,      \* useState<A2UITransport | null>, 0 is null  (line 42)
    mounted,        \* the component instance is mounted
    created,        \* number of A2UITransport instances constructed (line 46)
    disconnectCalls,\* per transport instance, calls of t.disconnect() (line 106)
    connectPending, \* transports whose connect() promise has not been rejected
    props,          \* initialComponents / initialDataModel the instance was built with
    received,       \* history: the reconciliation messages delivered, oldest first
    lastEvent,      \* history: the handler that ran last, with its arguments
    mapper,         \* one ComponentMapper instance: its props and its useState value
    dispatched      \* history: the clicks handed to handleAction, oldest first

vars == <<state, components, dataModel, error, transport, mounted, created,
          disconnectCalls, connectPending, props, received, lastEvent, mapper,
          dispatched>>

\* the variables of the A2UIRenderer instance
session == <<state, components, dataModel, error, transport, mounted, created,
             disconnectCalls, connectPending, props, received, lastEvent>>

(***************************************************************************)
(* Bounds                                                                  *)
(***************************************************************************)
\* longest root sequence drawn as an input (initialComponents, message.components)
MaxLen == 2
\* longest updates array of one updateComponents message
MaxUpdates == 2
\* reconciliation messages delivered in one behaviour of the session
MaxLog == 2
\* transport instances one renderer instance constructs (agentUrl changes + 1)
MaxTransports == 2
\* longest string drawn as the value of a property of a node
MaxStr == 2
\* clicks logged in one behaviour of the session
MaxDispatched == 2

(***************************************************************************)
(* Values                                                                  *)
(***************************************************************************)
RenderState == {"disconnected", "connecting", "connected", "error"}

Ids == {"x", "y"}

Types == {"text", "button"}

\* A2UIComponent, reduced to its id and its type (the type stands for the
\* node's whole content: type, properties, children).
Component == [id : Ids, type : Types]

\* `undefined` for an optional field of a message or of an update
Undefined == "undefined"

\* update.component when the update carries none
NoComponent == [id |-> Undefined, type |-> Undefined]

\* the object literal {} of `message.dataModel || {}` and of the prop default
EmptyModel == "{}"

Models == {EmptyModel, "m1", "m2"}

\* error === null
Null == "null"

\* the Error values the transport hands over; e0 is an Error whose message is
\* the empty string, as new Error() makes it
Errors == {"e0", "e1"}

\* err.message
Message(err) == IF err = "e0" THEN "" ELSE "boom 1"

Operations == {"add", "update", "remove"}

RECURSIVE SeqsUpTo(_, _)
SeqsUpTo(S, n) ==
    IF n = 0 THEN {<<>>}
    ELSE LET shorter == SeqsUpTo(S, n - 1)
         IN  shorter \cup {Append(s, e) : s \in {t \in shorter : Len(t) = n - 1}, e \in S}

(***************************************************************************)
(* Messages                                                                *)
(***************************************************************************)
\* one entry of message.updates: {operation, id, component?}
Update(operation, id, component) ==
    [operation |-> operation, id |-> id, component |-> component]

\* the entries a message may carry: an add carries its component (or, malformed,
\* none), an update names an id and carries a replacement (or none), a remove
\* names an id
Updates ==
    {Update("add", c.id, c) : c \in Component}
        \cup {Update("add", "x", NoComponent)}
        \cup {Update("update", id, c) : id \in Ids, c \in Component \cup {NoComponent}}
        \cup {Update("remove", id, NoComponent) : id \in Ids}

\* A2UIMessage of type createSurface: {type, components, dataModel?}
CreateSurfaceMessage(cs, dm) ==
    [type |-> "createSurface", components |-> cs, dataModel |-> dm, updates |-> <<>>]

\* A2UIMessage of type updateComponents: {type, updates}
UpdateComponentsMessage(us) ==
    [type |-> "updateComponents", components |-> <<>>, dataModel |-> Undefined,
     updates |-> us]

Trees == SeqsUpTo(Component, MaxLen)

CreateSurfaceMessages ==
    {CreateSurfaceMessage(cs, dm) : cs \in Trees, dm \in {Undefined, "m1", "m2"}}

UpdateComponentsMessages ==
    {UpdateComponentsMessage(us) : us \in SeqsUpTo(Updates, MaxUpdates)}

(***************************************************************************)
(* Reconciliation (the bodies of the createSurface / updateComponents      *)
(* handlers)                                                               *)
(***************************************************************************)
\* updated.findIndex((c) => c.id === id): the zero-based index of the first
\* element with that id, -1 when there is none
FindIndex(updated, id) ==
    IF \E i \in 1..Len(updated) : updated[i].id = id
    THEN (CHOOSE i \in 1..Len(updated) :
              /\ updated[i].id = id
              /\ \A j \in 1..(i - 1) : updated[j].id # id) - 1
    ELSE -1

\* updated.splice(index, 1), index zero-based and >= 0
Splice(updated, index) ==
    [i \in 1..(Len(updated) - 1) |->
        IF i <= index THEN updated[i] ELSE updated[i + 1]]

\* an update written as a removal followed by a push: the replacement moves
\* to the end of the array
ApplyUpdateMovesToEnd(updated, update) ==
    LET index == FindIndex(updated, update.id)
    IN  IF update.operation = "add" /\ update.component # NoComponent
        THEN Append(updated, update.component)
        ELSE IF update.operation = "update" /\ update.component # NoComponent
                /\ index >= 0
        THEN Append(Splice(updated, index), update.component)
        ELSE IF update.operation = "remove" /\ index >= 0
        THEN Splice(updated, index)
        ELSE updated

\* an update of an unknown id treated as an add (an upsert)
ApplyUpdateUpserts(updated, update) ==
    LET index == FindIndex(updated, update.id)
    IN  IF update.operation = "add" /\ update.component # NoComponent
        THEN Append(updated, update.component)
        ELSE IF update.operation = "update" /\ update.component # NoComponent
                /\ index >= 0
        THEN [updated EXCEPT ![index + 1] = update.component]
        ELSE IF update.operation = "update" /\ update.component # NoComponent
        THEN Append(updated, update.component)
        ELSE IF update.operation = "remove" /\ index >= 0
        THEN Splice(updated, index)
        ELSE updated

\* a remove written as updated.filter((c) => c.id !== update.id): every node
\* of the id goes
ApplyUpdateRemovesAll(updated, update) ==
    LET index == FindIndex(updated, update.id)
    IN  IF update.operation = "add" /\ update.component # NoComponent
        THEN Append(updated, update.component)
        ELSE IF update.operation = "update" /\ update.component # NoComponent
                /\ index >= 0
        THEN [updated EXCEPT ![index + 1] = update.component]
        ELSE IF update.operation = "remove" /\ index >= 0
        THEN SelectSeq(updated, LAMBDA c : c.id # update.id)
        ELSE updated

\* the body of message.updates.forEach((update) => { ... }) for one update
ApplyUpdate(updated, update) ==
    LET index == FindIndex(updated, update.id)
    IN  IF update.operation = "add" /\ update.component # NoComponent
        THEN Append(updated, update.component)
        ELSE IF update.operation = "update" /\ update.component # NoComponent
                /\ index >= 0
        THEN [updated EXCEPT ![index + 1] = update.component]
        ELSE IF update.operation = "remove" /\ index >= 0
        THEN Splice(updated, index)
        ELSE updated

\* (prev) => { const updated = [...prev]; updates.forEach(...); return updated }
RECURSIVE ForEach(_, _, _)
ForEach(updated, updates, k) ==
    IF k > Len(updates) THEN updated
    ELSE ForEach(ApplyUpdate(updated, updates[k]), updates, k + 1)

\* every index looked up in prev, the array before the message, instead of
\* in the accumulating copy
RECURSIVE ForEachStale(_, _, _, _)
ForEachStale(prev, updated, updates, k) ==
    IF k > Len(updates) THEN updated
    ELSE LET update == updates[k]
             index == FindIndex(prev, update.id)
             next ==
                 IF update.operation = "add" /\ update.component # NoComponent
                 THEN Append(updated, update.component)
                 ELSE IF update.operation = "update" /\ update.component # NoComponent
                         /\ index >= 0 /\ index < Len(updated)
                 THEN [updated EXCEPT ![index + 1] = update.component]
                 ELSE IF update.operation = "update" /\ update.component # NoComponent
                         /\ index >= 0
                 THEN Append(updated, update.component)
                 ELSE IF update.operation = "remove" /\ index >= 0
                         /\ index < Len(updated)
                 THEN Splice(updated, index)
                 ELSE updated
         IN  ForEachStale(prev, next, updates, k + 1)

ApplyUpdateComponentsStaleIndex(prev, updates) == ForEachStale(prev, prev, updates, 1)

ApplyUpdateComponents(prev, updates) == ForEach(prev, updates, 1)

\* message.dataModel || {}
OrEmpty(dm) == IF dm = Undefined THEN EmptyModel ELSE dm

\* a createSurface that merges: the new nodes after the old, the old model
\* kept when the message carries none
CreateSurfaceMerges(prevComponents, prevModel, message) ==
    IF message.type = "createSurface"
    THEN [components |-> prevComponents \o message.components,
          dataModel |-> IF message.dataModel = Undefined THEN prevModel
                        ELSE message.dataModel]
    ELSE [components |-> prevComponents, dataModel |-> prevModel]

\* the new (components, dataModel) of the createSurface handler
CreateSurfaceResult(prevComponents, prevModel, message) ==
    IF message.type = "createSurface"
    THEN [components |-> message.components, dataModel |-> OrEmpty(message.dataModel)]
    ELSE [components |-> prevComponents, dataModel |-> prevModel]

\* the new (components, dataModel) of the updateComponents handler
UpdateComponentsResult(prevComponents, prevModel, message) ==
    IF message.type = "updateComponents"
    THEN [components |-> ApplyUpdateComponents(prevComponents, message.updates),
          dataModel |-> prevModel]
    ELSE [components |-> prevComponents, dataModel |-> prevModel]

(***************************************************************************)
(* History records                                                         *)
(***************************************************************************)
\* lastEvent: which handler ran, and the arguments it ran with
\* action, isConnected, propagated and calls are filled in by handleAction;
\* late by the handlers of a transport
Event(kind, status, err, componentId, called, sent, threw) ==
    [kind |-> kind, status |-> status, err |-> err, componentId |-> componentId,
     called |-> called, sent |-> sent, threw |-> threw,
     action |-> Undefined, isConnected |-> FALSE, propagated |-> FALSE,
     calls |-> <<>>, late |-> FALSE]

Plain(kind) == Event(kind, Undefined, Null, Undefined, FALSE, FALSE, FALSE)

\* the event of a handler of transport t: late when the cleanup has already
\* called t.disconnect()
From(t, e) == [e EXCEPT !.late = disconnectCalls[t] > 0]

\* one call the component makes outward: onAction(action, context) or
\* transport.send(message); context is {componentId}, and type, surfaceId and
\* dataModel are those of the message sent (Undefined for onAction)
Call(fn, type, surfaceId, action, componentId, model) ==
    [fn |-> fn, type |-> type, surfaceId |-> surfaceId, action |-> action,
     componentId |-> componentId, dataModel |-> model]

\* received: the event name a message was delivered under, and the message
Delivery(event, message) == [event |-> event, message |-> message]

(***************************************************************************)
(* The component: construction                                             *)
(***************************************************************************)
\* the props an instance is built with: initialComponents, initialDataModel
Props(initialComponents, initialDataModel) ==
    [initialComponents |-> initialComponents, initialDataModel |-> initialDataModel]

\* the state after the first render and the first run of the effect: the
\* useState initial values, one transport constructed, connect() called on it
Mounted(p) ==
    /\ props = p
    /\ state = "connecting"
    /\ components = p.initialComponents
    /\ dataModel = p.initialDataModel
    /\ error = Null
    /\ transport = 1
    /\ mounted = TRUE
    /\ created = 1
    /\ disconnectCalls = <<0>>
    /\ connectPending = {1}
    /\ received = <<>>
    /\ lastEvent = Plain("mount")

(***************************************************************************)
(* The handlers registered on a transport t (lines 48-100).  They are      *)
(* never unregistered, so every constructed transport can still call them; *)
(* once the component is unmounted its state is gone and they change       *)
(* nothing.                                                                *)
(***************************************************************************)
\* a statusChange handler that never goes back: 'connecting' is ignored once
\* the state has left connecting
OnStatusChangeNoReturn(t, status) ==
    /\ mounted
    /\ t \in 1..created
    /\ state' = IF status \in RenderState /\ status # "connecting" THEN status ELSE state
    /\ lastEvent' =
           From(t, Event("statusChange", status, Null, Undefined, FALSE, FALSE, FALSE))
    /\ UNCHANGED <<components, dataModel, error, transport, mounted, created,
                   disconnectCalls, connectPending, props, received>>

\* a statusChange handler that tears the surface down when the status is
\* 'error' or 'disconnected'
OnStatusChangeDiscardsSurface(t, status) ==
    /\ mounted
    /\ t \in 1..created
    /\ state' = IF status \in RenderState THEN status ELSE state
    /\ components' = IF status \in {"error", "disconnected"} THEN <<>> ELSE components
    /\ dataModel' = IF status \in {"error", "disconnected"} THEN EmptyModel ELSE dataModel
    /\ lastEvent' =
           From(t, Event("statusChange", status, Null, Undefined, FALSE, FALSE, FALSE))
    /\ UNCHANGED <<error, transport, mounted, created, disconnectCalls, connectPending,
                   props, received>>

\* a statusChange handler that clears the recorded error when the transport
\* reports connected
OnStatusChangeClearsError(t, status) ==
    /\ mounted
    /\ t \in 1..created
    /\ state' = IF status \in RenderState THEN status ELSE state
    /\ error' = IF status = "connected" THEN Null ELSE error
    /\ lastEvent' =
           From(t, Event("statusChange", status, Null, Undefined, FALSE, FALSE, FALSE))
    /\ UNCHANGED <<components, dataModel, transport, mounted, created,
                   disconnectCalls, connectPending, props, received>>

\* t.on('statusChange', (status) => ...)
OnStatusChange(t, status) ==
    /\ mounted
    /\ t \in 1..created
    /\ state' = IF status \in RenderState THEN status ELSE state
    /\ lastEvent' =
           From(t, Event("statusChange", status, Null, Undefined, FALSE, FALSE, FALSE))
    /\ UNCHANGED <<components, dataModel, error, transport, mounted, created,
                   disconnectCalls, connectPending, props, received>>

\* an error handler that also discards the surface
OnErrorDiscardsSurface(t, err) ==
    /\ mounted
    /\ t \in 1..created
    /\ error' = err
    /\ state' = "error"
    /\ components' = <<>>
    /\ dataModel' = EmptyModel
    /\ lastEvent' =
           From(t, Event("error", Undefined, err, Undefined, FALSE, FALSE, FALSE))
    /\ UNCHANGED <<transport, mounted, created, disconnectCalls, connectPending,
                   props, received>>

\* t.on('error', (err) => ...)
OnError(t, err) ==
    /\ mounted
    /\ t \in 1..created
    /\ error' = err
    /\ state' = "error"
    /\ lastEvent' =
           From(t, Event("error", Undefined, err, Undefined, FALSE, FALSE, FALSE))
    /\ UNCHANGED <<components, dataModel, transport, mounted, created,
                   disconnectCalls, connectPending, props, received>>

\* t.on('createSurface', (message) => ...)
OnCreateSurface(t, message) ==
    /\ mounted
    /\ t \in 1..created
    /\ LET result == CreateSurfaceResult(components, dataModel, message)
       IN  /\ components' = result.components
           /\ dataModel' = result.dataModel
    /\ received' = Append(received, Delivery("createSurface", message))
    /\ lastEvent' = From(t, Plain("createSurface"))
    /\ UNCHANGED <<state, error, transport, mounted, created, disconnectCalls,
                   connectPending, props>>

\* an updateComponents handler that drops the message unless the session is
\* connected
OnUpdateComponentsWhenConnected(t, message) ==
    /\ mounted
    /\ t \in 1..created
    /\ LET result == UpdateComponentsResult(components, dataModel, message)
       IN  /\ components' = IF state = "connected" THEN result.components ELSE components
           /\ dataModel' = dataModel
    /\ received' = Append(received, Delivery("updateComponents", message))
    /\ lastEvent' = From(t, Plain("updateComponents"))
    /\ UNCHANGED <<state, error, transport, mounted, created, disconnectCalls,
                   connectPending, props>>

\* t.on('updateComponents', (message) => ...)
OnUpdateComponents(t, message) ==
    /\ mounted
    /\ t \in 1..created
    /\ LET result == UpdateComponentsResult(components, dataModel, message)
       IN  /\ components' = result.components
           /\ dataModel' = result.dataModel
    /\ received' = Append(received, Delivery("updateComponents", message))
    /\ lastEvent' = From(t, Plain("updateComponents"))
    /\ UNCHANGED <<state, error, transport, mounted, created, disconnectCalls,
                   connectPending, props>>

\* a catch that enters the error state without recording the error
OnConnectRejectedForgetsError(t, err) ==
    /\ mounted
    /\ t \in connectPending
    /\ connectPending' = connectPending \ {t}
    /\ state' = "error"
    /\ lastEvent' = Event("connectRejected", Undefined, err, Undefined, FALSE, FALSE, FALSE)
    /\ UNCHANGED <<components, dataModel, error, transport, mounted, created,
                   disconnectCalls, props, received>>

\* t.connect().catch((err) => ...): the promise of transport t is rejected
OnConnectRejected(t, err) ==
    /\ mounted
    /\ t \in connectPending
    /\ connectPending' = connectPending \ {t}
    /\ error' = err
    /\ state' = "error"
    /\ lastEvent' = Event("connectRejected", Undefined, err, Undefined, FALSE, FALSE, FALSE)
    /\ UNCHANGED <<components, dataModel, transport, mounted, created,
                   disconnectCalls, props, received>>

(***************************************************************************)
(* User actions (lines 110-135)                                            *)
(***************************************************************************)
\* the live tree is on screen and holds a control that emits: the renderer
\* shows the tree only in state connected, and of the kinds ComponentRenderer
\* draws only a button calls onAction
Emits(componentId) ==
    /\ state = "connected"
    /\ \E i \in 1..Len(components) :
           components[i].id = componentId /\ components[i].type = "button"

\* the actions a button hands to onAction: String(action || 'click'), which is
\* 'click' for the nodes of the session, which carry no action property
Actions == {"click"}

\* handleAction forwarding to the transport before it calls onAction
HandleActionSendsFirst(action, componentId, onAction, isConnected, sendOutcome) ==
    /\ mounted
    /\ Emits(componentId)
    /\ LET propagated == onAction = "throws"
           attempted == transport # 0 /\ isConnected
           threw == attempted /\ sendOutcome # Null
           calls ==
               (IF attempted
                THEN <<Call("send", "userAction", "surface-1", action, componentId,
                            dataModel)>>
                ELSE <<>>)
               \o (IF onAction # "unset"
                   THEN <<Call("onAction", Undefined, Undefined, action, componentId,
                               Undefined)>>
                   ELSE <<>>)
       IN  /\ error' = IF threw THEN sendOutcome ELSE error
           /\ lastEvent' =
                  [Event("action", Undefined, IF threw THEN sendOutcome ELSE Null,
                         componentId, onAction # "unset", attempted /\ ~threw, threw)
                   EXCEPT !.action = action, !.isConnected = isConnected,
                          !.propagated = propagated, !.calls = calls]
    /\ UNCHANGED <<state, components, dataModel, transport, mounted, created,
                   disconnectCalls, connectPending, props, received>>

\* handleAction treating a send that throws like a transport error: the
\* state becomes 'error'
HandleActionSendFailureIsFatal(action, componentId, onAction, isConnected, sendOutcome) ==
    /\ mounted
    /\ Emits(componentId)
    /\ LET propagated == onAction = "throws"
           attempted == ~propagated /\ transport # 0 /\ isConnected
           threw == attempted /\ sendOutcome # Null
           calls ==
               (IF onAction # "unset"
                THEN <<Call("onAction", Undefined, Undefined, action, componentId,
                            Undefined)>>
                ELSE <<>>)
               \o (IF attempted
                   THEN <<Call("send", "userAction", "surface-1", action, componentId,
                               dataModel)>>
                   ELSE <<>>)
       IN  /\ error' = IF threw THEN sendOutcome ELSE error
           /\ state' = IF threw THEN "error" ELSE state
           /\ lastEvent' =
                  [Event("action", Undefined, IF threw THEN sendOutcome ELSE Null,
                         componentId, onAction # "unset", attempted /\ ~threw, threw)
                   EXCEPT !.action = action, !.isConnected = isConnected,
                          !.propagated = propagated, !.calls = calls]
    /\ UNCHANGED <<components, dataModel, transport, mounted, created,
                   disconnectCalls, connectPending, props, received>>

\* handleAction that forwards a click only when the click handled last was
\* not the same one (a repeated click is merged into the first)
HandleActionMergesRepeats(action, componentId, onAction, isConnected, sendOutcome) ==
    /\ mounted
    /\ Emits(componentId)
    /\ LET propagated == onAction = "throws"
           repeated == /\ lastEvent.kind = "action"
                       /\ lastEvent.action = action
                       /\ lastEvent.componentId = componentId
           attempted == ~propagated /\ transport # 0 /\ isConnected /\ ~repeated
           threw == attempted /\ sendOutcome # Null
           calls ==
               (IF onAction # "unset"
                THEN <<Call("onAction", Undefined, Undefined, action, componentId,
                            Undefined)>>
                ELSE <<>>)
               \o (IF attempted
                   THEN <<Call("send", "userAction", "surface-1", action, componentId,
                               dataModel)>>
                   ELSE <<>>)
       IN  /\ error' = IF threw THEN sendOutcome ELSE error
           /\ lastEvent' =
                  [Event("action", Undefined, IF threw THEN sendOutcome ELSE Null,
                         componentId, onAction # "unset", attempted /\ ~threw, threw)
                   EXCEPT !.action = action, !.isConnected = isConnected,
                          !.propagated = propagated, !.calls = calls]
    /\ UNCHANGED <<state, components, dataModel, transport, mounted, created,
                   disconnectCalls, connectPending, props, received>>

\* handleAction naming the surface of the createSurface message applied last
HandleActionNamesLastSurface(action, componentId, onAction, isConnected, sendOutcome) ==
    /\ mounted
    /\ Emits(componentId)
    /\ LET propagated == onAction = "throws"
           attempted == ~propagated /\ transport # 0 /\ isConnected
           threw == attempted /\ sendOutcome # Null
           surfaceId == IF received # <<>>
                           /\ "surfaceId" \in DOMAIN received[Len(received)].message
                        THEN received[Len(received)].message.surfaceId
                        ELSE "surface-1"
           calls ==
               (IF onAction # "unset"
                THEN <<Call("onAction", Undefined, Undefined, action, componentId,
                            Undefined)>>
                ELSE <<>>)
               \o (IF attempted
                   THEN <<Call("send", "userAction", surfaceId, action, componentId,
                               dataModel)>>
                   ELSE <<>>)
       IN  /\ error' = IF threw THEN sendOutcome ELSE error
           /\ lastEvent' =
                  [Event("action", Undefined, IF threw THEN sendOutcome ELSE Null,
                         componentId, onAction # "unset", attempted /\ ~threw, threw)
                   EXCEPT !.action = action, !.isConnected = isConnected,
                          !.propagated = propagated, !.calls = calls]
    /\ UNCHANGED <<state, components, dataModel, transport, mounted, created,
                   disconnectCalls, connectPending, props, received>>

\* handleAction(action, context) for a click on the button componentId;
\* onAction: the onAction prop is "unset", or it "returns", or it "throws";
\* isConnected: transport.isConnected; sendOutcome: Null when transport.send
\* returns, the error when it throws.  An exception of onAction leaves
\* handleAction before the send; an exception of send is caught.
HandleAction(action, componentId, onAction, isConnected, sendOutcome) ==
    /\ mounted
    /\ Emits(componentId)
    /\ LET propagated == onAction = "throws"
           attempted == ~propagated /\ transport # 0 /\ isConnected
           threw == attempted /\ sendOutcome # Null
           calls ==
               (IF onAction # "unset"
                THEN <<Call("onAction", Undefined, Undefined, action, componentId,
                            Undefined)>>
                ELSE <<>>)
               \o (IF attempted
                   THEN <<Call("send", "userAction", "surface-1", action, componentId,
                               dataModel)>>
                   ELSE <<>>)
       IN  /\ error' = IF threw THEN sendOutcome ELSE error
           /\ lastEvent' =
                  [Event("action", Undefined, IF threw THEN sendOutcome ELSE Null,
                         componentId, onAction # "unset", attempted /\ ~threw, threw)
                   EXCEPT !.action = action, !.isConnected = isConnected,
                          !.propagated = propagated, !.calls = calls]
    /\ UNCHANGED <<state, components, dataModel, transport, mounted, created,
                   disconnectCalls, connectPending, props, received>>

(***************************************************************************)
(* Lifecycle of the effect (lines 45-108)                                  *)
(***************************************************************************)
\* an effect that starts the new connection attempt from the connecting state
AgentUrlChangedResetsState ==
    /\ mounted
    /\ created < MaxTransports
    /\ disconnectCalls' =
           Append([disconnectCalls EXCEPT ![created] = @ + 1], 0)
    /\ created' = created + 1
    /\ connectPending' = connectPending \cup {created + 1}
    /\ transport' = created + 1
    /\ state' = "connecting"
    /\ lastEvent' = Plain("agentUrlChanged")
    /\ UNCHANGED <<components, dataModel, error, mounted, props, received, mapper, dispatched>>

\* an effect whose cleanup does not disconnect the transport it replaces
AgentUrlChangedKeepsOld ==
    /\ mounted
    /\ created < MaxTransports
    /\ disconnectCalls' = Append(disconnectCalls, 0)
    /\ created' = created + 1
    /\ connectPending' = connectPending \cup {created + 1}
    /\ transport' = created + 1
    /\ lastEvent' = Plain("agentUrlChanged")
    /\ UNCHANGED <<state, components, dataModel, error, mounted, props, received, mapper, dispatched>>

\* agentUrl changes: the cleanup of the previous effect disconnects its
\* transport, then the effect runs again: a new transport, the handlers,
\* connect(), setTransport
AgentUrlChanged ==
    /\ mounted
    /\ created < MaxTransports
    /\ disconnectCalls' =
           Append([disconnectCalls EXCEPT ![created] = @ + 1], 0)
    /\ created' = created + 1
    /\ connectPending' = connectPending \cup {created + 1}
    /\ transport' = created + 1
    /\ lastEvent' = Plain("agentUrlChanged")
    /\ UNCHANGED <<state, components, dataModel, error, mounted, props, received, mapper, dispatched>>

\* an unmount that disconnects every transport the instance ever created
UnmountDisconnectsAll ==
    /\ mounted
    /\ mounted' = FALSE
    /\ disconnectCalls' = [t \in 1..created |-> disconnectCalls[t] + 1]
    /\ lastEvent' = Plain("unmount")
    /\ UNCHANGED <<state, components, dataModel, error, transport, created,
                   connectPending, props, received, mapper, dispatched>>

\* unmount: the cleanup of the last effect disconnects its transport
Unmount ==
    /\ mounted
    /\ mounted' = FALSE
    /\ disconnectCalls' = [disconnectCalls EXCEPT ![created] = @ + 1]
    /\ lastEvent' = Plain("unmount")
    /\ UNCHANGED <<state, components, dataModel, error, transport, created,
                   connectPending, props, received, mapper, dispatched>>

(***************************************************************************)
(* ComponentMapper (src/src/components/ComponentMapper.tsx): the values of *)
(* properties and of the data model, and their conversions                 *)
(***************************************************************************)
\* the characters of the strings drawn as inputs: the pointer prefix, a
\* letter and a digit
Chars == {"/", "a", "7"}

\* a JavaScript value: t is its type, and s (the characters of a string), n
\* (a number) or b (a boolean) holds it
JsValue(t, s, n, b) == [t |-> t, s |-> s, n |-> n, b |-> b]
JsString(s) == JsValue("string", s, 0, FALSE)
JsNumber(n) == JsValue("number", <<>>, n, FALSE)
JsBoolean(b) == JsValue("boolean", <<>>, 0, b)
JsUndefined == JsValue("undefined", <<>>, 0, FALSE)
JsNull == JsValue("null", <<>>, 0, FALSE)
\* the number NaN
JsNaN == JsValue("NaN", <<>>, 0, FALSE)
\* an array of items {id, label} or of options {value, label}: s holds the
\* id (the value) of each, a string of one character
JsArray(ids) == JsValue("array", ids, 0, FALSE)

\* the strings drawn as inputs
Strings == SeqsUpTo(Chars, MaxStr)

\* the values a property of a node is drawn from
PropertyValues ==
    {JsString(s) : s \in Strings}
        \cup {JsNumber(0), JsNumber(7), JsBoolean(FALSE), JsBoolean(TRUE),
              JsUndefined, JsNull}

\* v is truthy (v || d, if (v), Boolean(v))
Truthy(v) ==
    \/ v.t = "string" /\ v.s # <<>>
    \/ v.t = "number" /\ v.n # 0
    \/ v.t = "boolean" /\ v.b
    \/ v.t = "array"

\* v || d
Or(v, d) == IF Truthy(v) THEN v ELSE d

DigitChars == <<"0", "1", "2", "3", "4", "5", "6", "7", "8", "9">>

IsDigit(c) == \E i \in 1..10 : DigitChars[i] = c

DigitValue(c) == (CHOOSE i \in 1..10 : DigitChars[i] = c) - 1

\* the decimal digits of a natural number
RECURSIVE Digits(_)
Digits(n) ==
    IF n < 10 THEN <<DigitChars[n + 1]>>
    ELSE Append(Digits(n \div 10), DigitChars[(n % 10) + 1])

\* the number a sequence of decimal digits writes
RECURSIVE ParseDigits(_)
ParseDigits(s) ==
    IF s = <<>> THEN 0
    ELSE 10 * ParseDigits(SubSeq(s, 1, Len(s) - 1)) + DigitValue(s[Len(s)])

\* String(v), as characters
StringOf(v) ==
    IF v.t = "string" THEN v.s
    ELSE IF v.t = "number" THEN Digits(v.n)
    ELSE IF v.t = "boolean"
    THEN (IF v.b THEN <<"t", "r", "u", "e">> ELSE <<"f", "a", "l", "s", "e">>)
    ELSE IF v.t = "NaN" THEN <<"N", "a", "N">>
    ELSE IF v.t = "null" THEN <<"n", "u", "l", "l">>
    ELSE <<"u", "n", "d", "e", "f", "i", "n", "e", "d">>

\* Number(v): the empty string is 0, a string of digits its number, any
\* other string of Chars NaN
NumberOf(v) ==
    IF v.t = "string"
    THEN (IF \A i \in 1..Len(v.s) : IsDigit(v.s[i])
          THEN JsNumber(ParseDigits(v.s)) ELSE JsNaN)
    ELSE IF v.t = "number" THEN v
    ELSE IF v.t = "boolean" THEN JsNumber(IF v.b THEN 1 ELSE 0)
    ELSE IF v.t = "null" THEN JsNumber(0)
    ELSE JsNaN

\* the paths present in a data model, with the value at each: "m1" is
\* {a: 'a', 7: 0, '': undefined, l: [{id: '1'}, {id: '2'}]}, "m2" is
\* {a: '/7', 7: true}, "{}" is {}
Content(model) ==
    IF model = "m1"
    THEN (<<"/", "a">> :> JsString(<<"a">>)) @@ (<<"/", "7">> :> JsNumber(0))
             @@ (<<"/">> :> JsUndefined) @@ (<<"/", "l">> :> JsArray(<<"1", "2">>))
    ELSE IF model = "m2"
    THEN (<<"/", "a">> :> JsString(<<"/", "7">>)) @@ (<<"/", "7">> :> JsBoolean(TRUE))
    ELSE <<>>

\* JSONPointer.resolve(dataModel, pointer): the value at the path, undefined
\* when the model has no such path
Resolve(model, pointer) ==
    IF pointer \in DOMAIN Content(model) THEN Content(model)[pointer] ELSE JsUndefined

\* resolveValue without the fallback to the literal
ResolveValueNoFallback(model, value) ==
    IF value.t # "string" THEN value
    ELSE IF value.s # <<>> /\ value.s[1] = "/" THEN Resolve(model, value.s)
    ELSE value

\* resolveValue(value), of a ComponentMapper whose dataModel prop is model
ResolveValue(model, value) ==
    IF value.t # "string" THEN value
    ELSE IF value.s # <<>> /\ value.s[1] = "/"
    THEN LET resolved == Resolve(model, value.s)
         IN  IF resolved # JsUndefined THEN resolved ELSE value
    ELSE value

(***************************************************************************)
(* ComponentMapper: one instance, of any kind of node; a checkbox, a        *)
(* choicepicker, a slider and a textfield keep their value in useState     *)
(***************************************************************************)
\* no ComponentMapper instance is under study
Unrendered == [component |-> Undefined]

\* the kinds of node that keep a value in useState
LocalStateTypes == {"textfield", "checkbox", "slider", "choicepicker"}

\* the component prop: bound is the property the kind resolves against the
\* model (properties.checked of a checkbox, label of a button, items of a
\* list, defaultValue of tabs, value of the other kinds), action is
\* properties.action; options (of a choicepicker), clickable (of a list), tabs
\* (of tabs, the value of each entry) and children are set by the kinds that
\* read them
Node(id, type, bound, action) ==
    [id |-> id, type |-> type, bound |-> bound, action |-> action,
     options |-> JsUndefined, clickable |-> JsUndefined, tabs |-> <<>>,
     children |-> <<>>]

\* one call of onAction(action, context): context is {componentId} for a
\* button (field is Undefined) and {componentId, field: value} for the other
\* kinds, with field 'checked' for a checkbox, 'itemId' for a list and
\* 'value' for the rest
Emission(action, componentId, field, value) ==
    [action |-> action, componentId |-> componentId, field |-> field, value |-> value]

\* history: what ran last on the instance, the calls of onAction it made,
\* the value the control handed to a change handler, or the id of the
\* descendant that was clicked (undefined for the rest), and the calls of
\* the onAction of the instance that an instance below it made
MapperEvent(kind, emitted) ==
    [kind |-> kind, emitted |-> emitted, input |-> JsUndefined, below |-> <<>>]

\* initialChecked / initialValue, computed by every render of the control
InitialValue(type, model, bound) ==
    LET resolved == ResolveValue(model, bound)
    IN  IF type = "checkbox" THEN JsBoolean(Truthy(resolved))
        ELSE IF type = "slider" THEN NumberOf(Or(resolved, JsNumber(0)))
        ELSE IF type \in {"textfield", "choicepicker"}
        THEN JsString(StringOf(Or(resolved, JsString(<<>>))))
        ELSE JsUndefined

\* a child of a tabs node: a tab-trigger or a tab-content, with its
\* properties.value and its children (set for a tab-content that has some)
TabChild(type, value) == [type |-> type, value |-> value, children |-> <<>>]

\* which of its three returns the tabs branch takes: the tabs property when
\* it has entries, else the children when there are some, else [Empty tabs]
TabsMode(node) ==
    IF Len(node.tabs) > 0 THEN "simple"
    ELSE IF Len(node.children) > 0 THEN "children"
    ELSE "empty"

\* the values of the TabsTrigger elements, in order
TabTriggers(node) ==
    IF TabsMode(node) = "simple" THEN node.tabs
    ELSE LET IsTrigger(c) == c.type = "tab-trigger"
             triggers == SelectSeq(node.children, IsTrigger)
         IN  [i \in 1..Len(triggers) |-> triggers[i].value]

\* the contents paired with the triggers by position: the i-th content
\* stands for the i-th trigger
TabContentsByPosition(node) ==
    IF TabsMode(node) = "simple" THEN node.tabs
    ELSE LET IsContent(c) == c.type = "tab-content"
             contents == SelectSeq(node.children, IsContent)
         IN  [i \in 1..Len(contents) |->
                 IF i <= Len(TabTriggers(node)) THEN TabTriggers(node)[i]
                 ELSE contents[i].value]

\* the values of the TabsContent elements, in order
TabContents(node) ==
    IF TabsMode(node) = "simple" THEN node.tabs
    ELSE LET IsContent(c) == c.type = "tab-content"
             contents == SelectSeq(node.children, IsContent)
         IN  [i \in 1..Len(contents) |-> contents[i].value]

\* the defaultValue prop handed to <Tabs>: String(resolveValue(defaultValue)
\* || ''), which the simple mode completes with the value of the first tab
\* and the children mode hands over as it is
TabsDefault(node, model) ==
    LET defaultValue == StringOf(Or(ResolveValue(model, node.bound), JsString(<<>>)))
    IN  IF node.type # "tabs" \/ TabsMode(node) = "empty" THEN <<>>
        ELSE IF TabsMode(node) = "simple" /\ defaultValue = <<>> THEN node.tabs[1]
        ELSE defaultValue

\* the hooks a render of a node of the type calls: the useState in the
\* branch of a kind that keeps a value, none in the other branches
Hooks(type) == IF type \in LocalStateTypes THEN 1 ELSE 0

\* the first render of an instance: useState(initial) takes the initial
\* value, <Tabs> takes its defaultValue as the selected value; resolved is
\* what resolveValue returned for the bound property in the render made
\* last, hooks is the number of hooks the first render called
Construct(node, model) ==
    [component |-> node, dataModel |-> model,
     hooks |-> Hooks(node.type),
     resolved |-> ResolveValue(model, node.bound),
     local |-> InitialValue(node.type, model, node.bound),
     selected |-> TabsDefault(node, model),
     event |-> MapperEvent("construct", <<>>)]

\* <TabsContent value>: the panels on screen are those whose value is the
\* selected value of the enclosing <Tabs>
VisiblePanels(node, selected) ==
    LET IsSelected(value) == value = selected
    IN  SelectSeq(TabContents(node), IsSelected)

\* Array.isArray(value) ? value : resolveValue(value): the items of a list,
\* the options of a choicepicker
Collection(model, value) ==
    IF value.t = "array" THEN value ELSE ResolveValue(model, value)

\* the render of the node throws a TypeError: a list calls items.map on
\* items that are truthy and no array, a choicepicker calls options?.map on
\* options that are neither null nor undefined and no array
Faults(node, model) ==
    \/ /\ node.type = "list"
       /\ Truthy(Collection(model, node.bound))
       /\ Collection(model, node.bound).t # "array"
    \/ /\ node.type = "choicepicker"
       /\ Collection(model, node.options).t \notin {"undefined", "null", "array"}

\* the instance is on screen: its render returned an element, having called
\* as many hooks as its first render
Shown ==
    /\ mapper # Unrendered
    /\ ~Faults(mapper.component, mapper.dataModel)
    /\ mapper.hooks = Hooks(mapper.component.type)

\* the ids of the items a list shows, in order
ListItems(node, model) ==
    IF node.type = "list" /\ ~Faults(node, model)
           /\ Collection(model, node.bound).t = "array"
    THEN Collection(model, node.bound).s
    ELSE <<>>

\* a later render that takes the initial value again
MapperRenderReseeds(node, model) ==
    /\ Shown
    /\ node.id = mapper.component.id
    /\ node.type = mapper.component.type
    /\ mapper' = [Construct(node, model) EXCEPT !.event = MapperEvent("render", <<>>)]
    /\ UNCHANGED <<session, dispatched>>

\* a later render of the mounted instance, with a node of the same id and
\* kind: useState returns the stored value and ignores its argument
MapperRender(node, model) ==
    /\ Shown
    /\ node.id = mapper.component.id
    /\ node.type = mapper.component.type
    /\ mapper' = [mapper EXCEPT !.component = node, !.dataModel = model,
                                !.resolved = ResolveValue(model, node.bound),
                                !.event = MapperEvent("render", <<>>)]
    /\ UNCHANGED <<session, dispatched>>

\* a later render of the mounted instance with a node of the same id and
\* another kind: the branch of the new kind runs in the same instance; its
\* useState, when it has one and the first render called one too, returns
\* the value stored by the branch of the old kind; when the two branches
\* differ in the number of hooks the render throws (more, or fewer, hooks
\* than during the previous render); <Tabs> is mounted anew
MapperRenderOtherKind(node, model) ==
    /\ Shown
    /\ node.id = mapper.component.id
    /\ node.type # mapper.component.type
    /\ mapper' = [mapper EXCEPT !.component = node, !.dataModel = model,
                                !.resolved = ResolveValue(model, node.bound),
                                !.selected = TabsDefault(node, model),
                                !.event = MapperEvent("render", <<>>)]
    /\ UNCHANGED <<session, dispatched>>

\* the values a user can give a control of the type: e.target.value,
\* newChecked, newValue[0], the value of an option
UserValues(type) ==
    IF type = "checkbox" THEN {JsBoolean(FALSE), JsBoolean(TRUE)}
    ELSE IF type = "slider" THEN {JsNumber(0), JsNumber(7)}
    ELSE {JsString(s) : s \in SeqsUpTo(Chars, 1)}

\* a change handler that stores the new value only when it reports it
MapperInputEchoesOnlyWithAction(value) ==
    /\ Shown
    /\ mapper.component.type \in LocalStateTypes
    /\ value \in UserValues(mapper.component.type)
    /\ LET node == mapper.component
           field == IF node.type = "checkbox" THEN "checked" ELSE "value"
           emitted == IF Truthy(node.action)
                      THEN <<Emission(StringOf(node.action), node.id, field, value)>>
                      ELSE <<>>
       IN  mapper' = [mapper EXCEPT !.local = IF Truthy(node.action) THEN value ELSE @,
                                    !.event = [MapperEvent("input", emitted)
                                                  EXCEPT !.input = value]]
    /\ UNCHANGED <<session, dispatched>>

\* handleChange / handleCheckedChange / handleValueChange
MapperInput(value) ==
    /\ Shown
    /\ mapper.component.type \in LocalStateTypes
    /\ value \in UserValues(mapper.component.type)
    /\ LET node == mapper.component
           field == IF node.type = "checkbox" THEN "checked" ELSE "value"
           emitted == IF Truthy(node.action)
                      THEN <<Emission(StringOf(node.action), node.id, field, value)>>
                      ELSE <<>>
       IN  mapper' = [mapper EXCEPT !.local = value,
                                    !.event = [MapperEvent("input", emitted)
                                                  EXCEPT !.input = value]]
    /\ UNCHANGED <<session, dispatched>>

\* handleBlur emitting the value the control was seeded with
MapperBlurEmitsSeed ==
    /\ Shown
    /\ mapper.component.type = "textfield"
    /\ LET node == mapper.component
           emitted == IF Truthy(node.action)
                      THEN <<Emission(StringOf(node.action), node.id, "value",
                                      InitialValue(node.type, mapper.dataModel,
                                                   node.bound))>>
                      ELSE <<>>
       IN  mapper' = [mapper EXCEPT !.event = MapperEvent("blur", emitted)]
    /\ UNCHANGED <<session, dispatched>>

\* handleBlur of a textfield
MapperBlur ==
    /\ Shown
    /\ mapper.component.type = "textfield"
    /\ LET node == mapper.component
           emitted == IF Truthy(node.action)
                      THEN <<Emission(StringOf(node.action), node.id, "value",
                                      mapper.local)>>
                      ELSE <<>>
       IN  mapper' = [mapper EXCEPT !.event = MapperEvent("blur", emitted)]
    /\ UNCHANGED <<session, dispatched>>

\* the kinds whose element has no handler of its own but, for a button,
\* onClick: text, heading, container, divider, and every kind the mapper
\* does not know (the README spellings 'textField', 'checkBox' and
\* 'choicePicker' among them)
PlainTypes ==
    {"text", "heading", "button", "container", "divider", "mystery-widget",
     "textField", "checkBox", "choicePicker"}

\* MapperClick with a handler on every element: a click emits whatever the
\* kind
MapperClickEveryKind ==
    /\ Shown
    /\ mapper.component.type \in PlainTypes
    /\ LET node == mapper.component
           action == StringOf(Or(node.action, JsString(<<"c", "l", "i", "c", "k">>)))
       IN  mapper' = [mapper EXCEPT !.event =
                         MapperEvent("click",
                                     <<Emission(action, node.id, Undefined, JsUndefined)>>)]
    /\ UNCHANGED <<session, dispatched>>

\* a click on the element of a node of a plain kind: handleClick of a
\* button calls onAction(String(action || 'click'), {componentId}); the
\* elements of the other kinds have no handler
MapperClick ==
    /\ Shown
    /\ mapper.component.type \in PlainTypes
    /\ LET node == mapper.component
           action == StringOf(Or(node.action, JsString(<<"c", "l", "i", "c", "k">>)))
           emitted == IF node.type = "button"
                      THEN <<Emission(action, node.id, Undefined, JsUndefined)>>
                      ELSE <<>>
       IN  mapper' = [mapper EXCEPT !.event = MapperEvent("click", emitted)]
    /\ UNCHANGED <<session, dispatched>>

\* a click on the trigger of another tab than the selected one: <Tabs> takes
\* the value of the trigger as the selected value and calls onValueChange,
\* which is handleValueChange
MapperTabSwitch(value) ==
    /\ Shown
    /\ mapper.component.type = "tabs"
    /\ \E i \in 1..Len(TabTriggers(mapper.component)) :
           TabTriggers(mapper.component)[i] = value
    /\ value # mapper.selected
    /\ LET node == mapper.component
           emitted == IF Truthy(node.action)
                      THEN <<Emission(StringOf(node.action), node.id, "value",
                                      JsString(value))>>
                      ELSE <<>>
       IN  mapper' = [mapper EXCEPT !.selected = value,
                                    !.event = MapperEvent("tabSwitch", emitted)]
    /\ UNCHANGED <<session, dispatched>>

\* the function the root instance is given as its onAction prop
OnActionProp == "onAction"

\* a <ComponentMapper> element created for a child: its three props, and the
\* value of the tab-content it stands in when it stands in one
ChildElement(component, model, onAction) ==
    [component |-> component, dataModel |-> model, onAction |-> onAction,
     inPanel |-> FALSE, panel |-> <<>>]

\* renderChildren handing every child an empty model of its own
RenderChildrenForksModel(children, model, onAction) ==
    [i \in 1..Len(children) |-> ChildElement(children[i], EmptyModel, onAction)]

\* renderChildren(), and content.children.map of a tab-content: one element
\* per child, with the dataModel and the onAction of the instance itself
RenderChildren(children, model, onAction) ==
    [i \in 1..Len(children) |-> ChildElement(children[i], model, onAction)]

\* the elements of the sequences of a sequence, in order
RECURSIVE Flatten(_)
Flatten(seqs) == IF seqs = <<>> THEN <<>> ELSE Head(seqs) \o Flatten(Tail(seqs))

\* the elements an instance with these props creates for its children: those
\* of renderChildren for a container, those of each tab-content for tabs in
\* the children mode, none for the other kinds
ChildElements(node, model, onAction) ==
    IF node.type = "container" THEN RenderChildren(node.children, model, onAction)
    ELSE IF node.type = "tabs" /\ TabsMode(node) = "children"
    THEN LET IsContent(c) == c.type = "tab-content"
             contents == SelectSeq(node.children, IsContent)
         IN  Flatten([i \in 1..Len(contents) |->
                        LET elements == RenderChildren(contents[i].children, model,
                                                       onAction)
                        IN  [k \in 1..Len(elements) |->
                                [elements[k] EXCEPT !.inPanel = TRUE,
                                                    !.panel = contents[i].value]]])
    ELSE <<>>

\* the elements created below an instance at any depth: each child is an
\* instance with the props of its element, and creates its own
RECURSIVE Descendants(_, _, _)
Descendants(node, model, onAction) ==
    LET direct == ChildElements(node, model, onAction)
    IN  direct
            \o Flatten([i \in 1..Len(direct) |->
                           LET below == Descendants(direct[i].component,
                                                    direct[i].dataModel,
                                                    direct[i].onAction)
                           IN  [k \in 1..Len(below) |->
                                   [below[k] EXCEPT !.inPanel = direct[i].inPanel,
                                                    !.panel = direct[i].panel]]])

\* a click on the k-th descendant of the instance, which is on screen (it
\* stands in no tab-content, or in the selected one): a button calls its
\* onAction prop with String(action || 'click') and its own id, the other
\* kinds drawn below an instance have no handler; below holds the call when
\* the function called is the one the root was given
MapperDescendantClick(k) ==
    /\ Shown
    /\ k \in 1..Len(Descendants(mapper.component, mapper.dataModel, OnActionProp))
    /\ LET element == Descendants(mapper.component, mapper.dataModel, OnActionProp)[k]
           node == element.component
           action == StringOf(Or(node.action, JsString(<<"c", "l", "i", "c", "k">>)))
           emitted == IF node.type = "button" /\ element.onAction = OnActionProp
                      THEN <<Emission(action, node.id, Undefined, JsUndefined)>>
                      ELSE <<>>
       IN  /\ element.inPanel => element.panel = mapper.selected
           /\ mapper' = [mapper EXCEPT !.event =
                             [MapperEvent("descendantClick", <<>>)
                                 EXCEPT !.input = JsString(<<node.id>>),
                                        !.below = emitted]]
    /\ UNCHANGED <<session, dispatched>>

\* clickable only when the property is given and true
ClickableOnlyIfTrue(node) == node.clickable = JsBoolean(TRUE)

\* clickable = properties.clickable !== false
Clickable(node) == node.clickable # JsBoolean(FALSE)

\* handleItemClick naming the item in the field 'value'
MapperItemClickAsValue(itemId) ==
    /\ Shown
    /\ mapper.component.type = "list"
    /\ \E i \in 1..Len(ListItems(mapper.component, mapper.dataModel)) :
           ListItems(mapper.component, mapper.dataModel)[i] = itemId
    /\ LET node == mapper.component
           emitted == IF Clickable(node) /\ Truthy(node.action)
                      THEN <<Emission(StringOf(node.action), node.id, "value",
                                      JsString(<<itemId>>))>>
                      ELSE <<>>
       IN  mapper' = [mapper EXCEPT !.event = MapperEvent("itemClick", emitted)]
    /\ UNCHANGED <<session, dispatched>>

\* a click on the item itemId of a list: a clickable list shows each item as
\* a button whose onClick is handleItemClick(item.id), a list that is not
\* clickable shows it as a div without a handler
MapperItemClick(itemId) ==
    /\ Shown
    /\ mapper.component.type = "list"
    /\ \E i \in 1..Len(ListItems(mapper.component, mapper.dataModel)) :
           ListItems(mapper.component, mapper.dataModel)[i] = itemId
    /\ LET node == mapper.component
           emitted == IF Clickable(node) /\ Truthy(node.action)
                      THEN <<Emission(StringOf(node.action), node.id, "itemId",
                                      JsString(<<itemId>>))>>
                      ELSE <<>>
       IN  mapper' = [mapper EXCEPT !.event = MapperEvent("itemClick", emitted)]
    /\ UNCHANGED <<session, dispatched>>

\* the instance is unmounted and a new one is constructed with the same
\* props (the key of the element changed)
MapperRemount ==
    /\ Shown
    /\ mapper' = Construct(mapper.component, mapper.dataModel)
    /\ UNCHANGED <<session, dispatched>>

\* properties.action of the nodes drawn: absent, or 'a'
ActionValues == {JsUndefined, JsString(<<"a">>)}

\* the items of a list and the options of a choicepicker: absent, an array
\* (empty, or of two), the pointer /l (an array in "m1", missing in the other
\* models), the pointer /a (a string in "m1" and "m2")
CollectionValues ==
    {JsUndefined, JsArray(<<>>), JsArray(<<"1", "2">>), JsString(<<"/", "l">>),
     JsString(<<"/", "a">>)}

\* the nodes an instance is constructed with
MapperNodes ==
    {Node("x", type, bound, action) :
        type \in LocalStateTypes \cup PlainTypes, bound \in PropertyValues,
        action \in ActionValues}
        \cup {[Node("x", "choicepicker", JsString(<<"a">>), action)
                  EXCEPT !.options = options] :
                 options \in CollectionValues, action \in ActionValues}
        \cup {[Node("x", "list", items, action) EXCEPT !.clickable = clickable] :
                 items \in CollectionValues, action \in ActionValues,
                 clickable \in {JsUndefined, JsBoolean(FALSE), JsBoolean(TRUE)}}

\* properties.defaultValue of the tabs drawn: absent, the value of the
\* second tab, a pointer to the value of the first tab in "m1" (missing in
\* the empty model)
TabsDefaults == {JsUndefined, JsString(<<"7">>), JsString(<<"/", "a">>)}

\* tabs 'a' and '7' in the simple mode, the same two as a trigger and a
\* content each in the children mode, the content of 'a' followed by the
\* triggers of '7' and 'a' (no content for '7'), and tabs with neither
TabsNodes ==
    {[Node("x", "tabs", defaultValue, action)
         EXCEPT !.tabs = layout.tabs, !.children = layout.children] :
        defaultValue \in TabsDefaults, action \in ActionValues,
        layout \in {[tabs |-> <<<<"a">>, <<"7">>>>, children |-> <<>>],
                     [tabs |-> <<>>,
                      children |-> <<TabChild("tab-trigger", <<"a">>),
                                     TabChild("tab-trigger", <<"7">>),
                                     TabChild("tab-content", <<"a">>),
                                     TabChild("tab-content", <<"7">>)>>],
                     [tabs |-> <<>>,
                      children |-> <<TabChild("tab-content", <<"a">>),
                                     TabChild("tab-trigger", <<"7">>),
                                     TabChild("tab-trigger", <<"a">>)>>],
                     [tabs |-> <<>>, children |-> <<>>]}}

\* a container that holds a text bound to /a and a container, which holds a
\* button; tabs in the children mode whose panels hold a button and a text
NestedNodes ==
    {[Node("x", "container", JsUndefined, JsUndefined)
         EXCEPT !.children =
             <<Node("d1", "text", JsString(<<"/", "a">>), JsUndefined),
               [Node("d2", "container", JsUndefined, JsUndefined)
                   EXCEPT !.children = <<Node("d3", "button", JsUndefined, action)>>]>>] :
        action \in ActionValues}
        \cup {[Node("x", "tabs", defaultValue, JsUndefined)
                  EXCEPT !.children =
                      <<TabChild("tab-trigger", <<"a">>),
                        TabChild("tab-trigger", <<"7">>),
                        [TabChild("tab-content", <<"7">>)
                            EXCEPT !.children =
                                <<Node("d1", "text", JsString(<<"/", "a">>),
                                       JsUndefined)>>],
                        [TabChild("tab-content", <<"a">>)
                            EXCEPT !.children =
                                <<Node("d2", "button", JsUndefined, action)>>]>>] :
                 defaultValue \in TabsDefaults, action \in ActionValues}

\* the values an updateComponents message replaces the bound property with
ReplacedValues == {JsString(<<"/", "a">>), JsString(<<"a">>), JsNumber(7), JsUndefined}

MapperInit ==
    /\ Mounted(Props(<<>>, EmptyModel))
    /\ dispatched = <<>>
    /\ \E node \in MapperNodes \cup TabsNodes \cup NestedNodes, id \in Ids,
          model \in Models :
           mapper = Construct([node EXCEPT !.id = id], model)

DataModelChanged == \E model \in Models : MapperRender(mapper.component, model)

NodeReplaced ==
    \E bound \in ReplacedValues :
        MapperRender([mapper.component EXCEPT !.bound = bound], mapper.dataModel)

\* <Checkbox checked={checked}>: a click hands onCheckedChange the negation
\* of the checked prop
Toggled(checked) == JsBoolean(~checked.b)

\* an updateComponents message replaces the node by a slider or a text of
\* the same id, with the value 7
KindReplaced ==
    \E type \in {"slider", "text"} :
        MapperRenderOtherKind(Node(mapper.component.id, type, JsNumber(7),
                                   mapper.component.action),
                              mapper.dataModel)

UserInput ==
    \E value \in UserValues(mapper.component.type) :
        /\ mapper.component.type = "checkbox" => value = Toggled(mapper.local)
        /\ MapperInput(value)

ItemClick == \E itemId \in {"1", "2"} : MapperItemClick(itemId)

TabSwitch == \E value \in {<<"a">>, <<"7">>} : MapperTabSwitch(value)

DescendantClick == \E k \in 1..3 : MapperDescendantClick(k)

MapperNext ==
    \/ DataModelChanged
    \/ NodeReplaced
    \/ KindReplaced
    \/ UserInput
    \/ MapperBlur
    \/ MapperClick
    \/ ItemClick
    \/ TabSwitch
    \/ DescendantClick
    \/ MapperRemount

MapperSpec == MapperInit /\ [][MapperNext]_vars

(***************************************************************************)
(* The session: one renderer instance driven by its transports and user    *)
(***************************************************************************)
\* the messages the session's transports deliver
SessionCreateSurfaceMessages ==
    { CreateSurfaceMessage(<<[id |-> "x", type |-> "text"],
                             [id |-> "y", type |-> "button"]>>, "m1"),
      CreateSurfaceMessage(<<[id |-> "y", type |-> "text"]>>, Undefined) }

SessionUpdateComponentsMessages ==
    { UpdateComponentsMessage(<<Update("remove", "x", NoComponent),
                                Update("add", "x", [id |-> "x", type |-> "button"])>>),
      UpdateComponentsMessage(<<Update("add", "x", [id |-> "x", type |-> "button"]),
                                Update("remove", "x", NoComponent)>>),
      UpdateComponentsMessage(<<Update("update", "y", [id |-> "y", type |-> "button"])>>),
      UpdateComponentsMessage(<<Update("remove", "y", NoComponent)>>) }

SessionProps ==
    { Props(<<>>, EmptyModel),
      Props(<<[id |-> "x", type |-> "text"]>>, "m2") }

Init == mapper = Unrendered /\ dispatched = <<>> /\ \E p \in SessionProps : Mounted(p)

StatusChange ==
    /\ \E t \in 1..created, status \in RenderState : OnStatusChange(t, status)
    /\ UNCHANGED <<mapper, dispatched>>

ErrorEvent ==
    /\ \E t \in 1..created, err \in Errors : OnError(t, err)
    /\ UNCHANGED <<mapper, dispatched>>

CreateSurface ==
    /\ Len(received) < MaxLog
    /\ \E t \in 1..created, message \in SessionCreateSurfaceMessages :
           OnCreateSurface(t, message)
    /\ UNCHANGED <<mapper, dispatched>>

UpdateComponents ==
    /\ Len(received) < MaxLog
    /\ \E t \in 1..created, message \in SessionUpdateComponentsMessages :
           OnUpdateComponents(t, message)
    /\ UNCHANGED <<mapper, dispatched>>

ConnectRejected ==
    /\ \E t \in connectPending, err \in Errors : OnConnectRejected(t, err)
    /\ UNCHANGED <<mapper, dispatched>>

UserAction ==
    /\ \E action \in Actions, componentId \in Ids,
          onAction \in {"unset", "returns", "throws"}, isConnected \in BOOLEAN,
          sendOutcome \in {Null} \cup Errors :
           /\ (~isConnected) => sendOutcome = Null
           /\ onAction = "throws" => sendOutcome = Null
           /\ HandleAction(action, componentId, onAction, isConnected, sendOutcome)
    /\ UNCHANGED <<mapper, dispatched>>

Next ==
    \/ StatusChange
    \/ ErrorEvent
    \/ CreateSurface
    \/ UpdateComponents
    \/ ConnectRejected
    \/ UserAction
    \/ AgentUrlChanged
    \/ Unmount

Spec == Init /\ [][Next]_vars

(***************************************************************************)
(* Reconciliation alone: an instance built with any tree receives one      *)
(* message, of either type, under either event name                        *)
(***************************************************************************)
ReconcileProps == {Props(cs, "m1") : cs \in Trees}

ReconcileMessages == CreateSurfaceMessages \cup UpdateComponentsMessages

ReconcileInit ==
    mapper = Unrendered /\ dispatched = <<>> /\ \E p \in ReconcileProps : Mounted(p)

ReconcileCreateSurface ==
    /\ received = <<>>
    /\ \E message \in ReconcileMessages : OnCreateSurface(1, message)
    /\ UNCHANGED <<mapper, dispatched>>

ReconcileUpdateComponents ==
    /\ received = <<>>
    /\ \E message \in ReconcileMessages : OnUpdateComponents(1, message)
    /\ UNCHANGED <<mapper, dispatched>>

ReconcileNext ==
    \/ ReconcileCreateSurface
    \/ ReconcileUpdateComponents

ReconcileSpec == ReconcileInit /\ [][ReconcileNext]_vars

(***************************************************************************)
(* Render (lines 137-179)                                                  *)
(***************************************************************************)
\* error?.message || 'Connection failed'
ErrorMessage ==
    IF error = Null \/ Message(error) = "" THEN "Connection failed" ELSE Message(error)

\* View with the error placeholder put first: shown whenever an error is
\* recorded, whatever the state
ViewErrorFirst ==
    IF error # Null
    THEN [region |-> "error", message |-> ErrorMessage, rendered |-> <<>>]
    ELSE IF state = "connecting"
    THEN [region |-> "connecting", message |-> "", rendered |-> <<>>]
    ELSE IF state = "disconnected"
    THEN [region |-> "disconnected", message |-> "", rendered |-> <<>>]
    ELSE [region |-> "live", message |-> "", rendered |-> components]

\* what the component returns: the region shown, the text of the error
\* placeholder, and the root nodes handed to ComponentRenderer
View ==
    IF state = "connecting"
    THEN [region |-> "connecting", message |-> "", rendered |-> <<>>]
    ELSE IF state = "error"
    THEN [region |-> "error", message |-> ErrorMessage, rendered |-> <<>>]
    ELSE IF state = "disconnected"
    THEN [region |-> "disconnected", message |-> "", rendered |-> <<>>]
    ELSE [region |-> "live", message |-> "", rendered |-> components]

(***************************************************************************)
(* What the session puts on screen: each root node of the live tree goes   *)
(* through ComponentRenderer (imported from './ComponentRenderer'), which   *)
(* knows text and button and resolves no pointer                           *)
(***************************************************************************)
\* component.properties?.['value'] of the nodes of the surfaces modelled: a
\* textfield and a text are bound to the path /a, the other nodes carry no
\* value
ValueProperty(component) ==
    IF component.type \in {"textfield", "text"}
    THEN JsString(<<"/", "a">>) ELSE JsUndefined

\* what a node is rendered as: the element, its text, the kind named by a
\* fallback marker, the local value of a control (undefined when the element
\* keeps none), the ids of the items or options it lists, and the values of
\* the tab panels on screen
Element(tag, text, marker, local) ==
    [tag |-> tag, text |-> text, marker |-> marker, local |-> local, items |-> <<>>,
     panels |-> <<>>]

\* ComponentRenderer({component, onAction}): a div for text, a button for
\* button (label || 'Button'), the marker [type] for every other kind
ComponentRenderer(component) ==
    IF component.type = "text"
    THEN Element("div", StringOf(Or(ValueProperty(component), JsString(<<>>))),
                 Undefined, JsUndefined)
    ELSE IF component.type = "button"
    THEN Element("button", <<"B", "u", "t", "t", "o", "n">>, Undefined, JsUndefined)
    ELSE Element("fallback", <<>>, component.type, JsUndefined)

\* components.map((component) => <ComponentRenderer key={component.id} .../>)
Rendered == [i \in 1..Len(View.rendered) |-> ComponentRenderer(View.rendered[i])]

(***************************************************************************)
(* A surface with two buttons, and the clicks on them in the order they    *)
(* were made                                                               *)
(***************************************************************************)
\* one entry of the log: what was clicked, what the caller's onAction does,
\* what transport.isConnected said, and the outward calls handleAction made
Click(action, componentId, onAction, isConnected, calls) ==
    [action |-> action, componentId |-> componentId, onAction |-> onAction,
     isConnected |-> isConnected, calls |-> calls]

DispatchProps == Props(<<[id |-> "x", type |-> "button"], [id |-> "y", type |-> "button"]>>, "m1")

DispatchInit == mapper = Unrendered /\ dispatched = <<>> /\ Mounted(DispatchProps)

\* a click on one of the buttons: handleAction runs to its end before the
\* next event is handled
DispatchUserAction ==
    /\ Len(dispatched) < MaxDispatched
    /\ \E action \in Actions, componentId \in Ids,
          onAction \in {"unset", "returns", "throws"}, isConnected \in BOOLEAN,
          sendOutcome \in {Null, "e1"} :
           /\ (~isConnected) => sendOutcome = Null
           /\ onAction = "throws" => sendOutcome = Null
           /\ HandleAction(action, componentId, onAction, isConnected, sendOutcome)
           /\ dispatched' = Append(dispatched,
                                   Click(action, componentId, onAction, isConnected,
                                         lastEvent'.calls))
    /\ UNCHANGED mapper

\* createSurface messages that name their surface and carry the two buttons
\* and another model
DispatchCreateSurfaceMessages ==
    {[surfaceId |-> surfaceId]
         @@ CreateSurfaceMessage(DispatchProps.initialComponents, "m2") :
        surfaceId \in {"surface-1", "s2"}}

\* the agent creates the surface once
DispatchCreateSurface ==
    /\ received = <<>>
    /\ \E message \in DispatchCreateSurfaceMessages : OnCreateSurface(1, message)
    /\ UNCHANGED <<mapper, dispatched>>

DispatchNext ==
    \/ StatusChange
    \/ DispatchCreateSurface
    \/ DispatchUserAction

DispatchSpec == DispatchInit /\ [][DispatchNext]_vars

(***************************************************************************)
(* What a ComponentMapper instance returns                                 *)
(***************************************************************************)
\* the element the render of the instance m returns, or the TypeError it
\* throws
MapperOutput(m) ==
    LET node == m.component
        text == StringOf(Or(m.resolved, JsString(<<>>)))
    IN  IF m.hooks # Hooks(node.type)
        THEN Element("Error", <<>>, Undefined, JsUndefined)
        ELSE IF Faults(node, m.dataModel)
        THEN Element("TypeError", <<>>, Undefined, JsUndefined)
        ELSE IF node.type = "text" THEN Element("div", text, Undefined, JsUndefined)
        ELSE IF node.type = "heading" THEN Element("h1", text, Undefined, JsUndefined)
        ELSE IF node.type = "button"
        THEN Element("button",
                     StringOf(Or(m.resolved, JsString(<<"B", "u", "t", "t", "o", "n">>))),
                     Undefined, JsUndefined)
        ELSE IF node.type = "container"
        THEN Element("container", <<>>, Undefined, JsUndefined)
        ELSE IF node.type = "divider" THEN Element("hr", <<>>, Undefined, JsUndefined)
        ELSE IF node.type = "checkbox"
        THEN Element("checkbox", <<>>, Undefined, m.local)
        ELSE IF node.type = "choicepicker"
        THEN [Element("select", <<>>, Undefined, m.local)
                EXCEPT !.items = IF Collection(m.dataModel, node.options).t = "array"
                                 THEN Collection(m.dataModel, node.options).s
                                 ELSE <<>>]
        ELSE IF node.type = "list"
        THEN [Element("list", <<>>, Undefined, JsUndefined)
                EXCEPT !.items = ListItems(node, m.dataModel)]
        ELSE IF node.type = "tabs"
        THEN IF TabsMode(node) = "empty"
             THEN Element("emptyTabs", <<>>, Undefined, JsUndefined)
             ELSE [Element("tabs", <<>>, Undefined, JsUndefined)
                     EXCEPT !.panels = VisiblePanels(node, m.selected)]
        ELSE IF node.type = "slider" THEN Element("slider", <<>>, Undefined, m.local)
        ELSE IF node.type = "textfield" THEN Element("input", <<>>, Undefined, m.local)
        ELSE Element("fallback", <<>>, node.type, JsUndefined)

\* a root node of the session as the component prop of a ComponentMapper
AsNode(component) ==
    Node(component.id, component.type, ValueProperty(component), JsUndefined)

(***************************************************************************)
(* A surface with a textfield: an instance built with the textfield x      *)
(* bound to /a receives createSurface and updateComponents messages        *)
(***************************************************************************)
TextFieldX == [id |-> "x", type |-> "textfield"]

SurfaceProps == Props(<<TextFieldX>>, "m1")

\* createSurface messages that carry the textfield again, with a model that
\* holds another value at /a
SurfaceCreateSurfaceMessages ==
    { CreateSurfaceMessage(<<TextFieldX>>, "m2"),
      CreateSurfaceMessage(<<TextFieldX, [id |-> "y", type |-> "text"]>>, "m1") }

\* updateComponents messages that do not replace the textfield
SurfaceUpdateComponentsMessages ==
    { UpdateComponentsMessage(<<Update("add", "y", [id |-> "y", type |-> "button"])>>),
      UpdateComponentsMessage(<<Update("remove", "y", NoComponent)>>) }

SurfaceInit == mapper = Unrendered /\ dispatched = <<>> /\ Mounted(SurfaceProps)

SurfaceCreateSurface ==
    /\ Len(received) < MaxLog
    /\ \E message \in SurfaceCreateSurfaceMessages : OnCreateSurface(1, message)
    /\ UNCHANGED <<mapper, dispatched>>

SurfaceUpdateComponents ==
    /\ Len(received) < MaxLog
    /\ \E message \in SurfaceUpdateComponentsMessages : OnUpdateComponents(1, message)
    /\ UNCHANGED <<mapper, dispatched>>

SurfaceNext ==
    \/ StatusChange
    \/ SurfaceCreateSurface
    \/ SurfaceUpdateComponents
    \/ UserAction

SurfaceSpec == SurfaceInit /\ [][SurfaceNext]_vars

(***************************************************************************)
(* Operators used only to state the claims: reading the history, and the   *)
(* single-operation semantics written independently of the handlers        *)
(***************************************************************************)
Front(s) == SubSeq(s, 1, Len(s) - 1)

\* the message delivered last
LastMessage == received[Len(received)].message

\* the last handler run was the updateComponents handler, on a message of its type
UpdateApplied ==
    /\ lastEvent.kind = "updateComponents"
    /\ LastMessage.type = "updateComponents"

\* the last handler run was the createSurface handler, on a message of its type
CreateApplied ==
    /\ lastEvent.kind = "createSurface"
    /\ LastMessage.type = "createSurface"

\* the ids of the root nodes of a tree
IdsOf(tree) == {tree[i].id : i \in 1..Len(tree)}

\* one-based position of the first root node with that id, 0 when there is none
FirstAt(tree, id) ==
    LET at == {i \in 1..Len(tree) : tree[i].id = id}
    IN  IF at = {} THEN 0 ELSE CHOOSE i \in at : \A j \in at : i <= j

\* the single-operation semantics of section 4.4, written with subsequences
SingleOperation(tree, u) ==
    LET k == FirstAt(tree, u.id)
    IN  CASE u.operation = "add" /\ u.component # NoComponent ->
                 tree \o <<u.component>>
          [] u.operation = "update" /\ u.component # NoComponent /\ k > 0 ->
                 SubSeq(tree, 1, k - 1) \o <<u.component>> \o SubSeq(tree, k + 1, Len(tree))
          [] u.operation = "remove" /\ k > 0 ->
                 SubSeq(tree, 1, k - 1) \o SubSeq(tree, k + 1, Len(tree))
          [] OTHER -> tree

\* the left fold of the single-operation semantics over an updates array
RECURSIVE LeftFold(_, _)
LeftFold(tree, us) ==
    IF us = <<>> THEN tree
    ELSE SingleOperation(LeftFold(tree, Front(us)), us[Len(us)])

(***************************************************************************)
(* Claims on reconciliation, checked under ReconcileSpec: the tree before  *)
(* the one message is props.initialComponents                              *)
(***************************************************************************)
\* C1: applying a createSurface message replaces the whole root sequence and
\* the whole data model with the message's values, an absent dataModel
\* becoming the empty model, whatever the tree and the model were before.
C1_CreateSurfaceReplaces ==
    CreateApplied =>
        /\ components = LastMessage.components
        /\ dataModel =
               (IF LastMessage.dataModel = Undefined THEN EmptyModel
                ELSE LastMessage.dataModel)

\* a createSurface without dataModel reached an instance holding a non-empty
\* tree and model, with a different tree
C1_Witness ==
    /\ CreateApplied
    /\ props.initialComponents # <<>>
    /\ props.initialDataModel # EmptyModel
    /\ LastMessage.dataModel = Undefined
    /\ LastMessage.components # props.initialComponents
    /\ LastMessage.components # <<>>
    /\ dataModel = EmptyModel

\* C2: the updates of one message are applied in array order to an
\* accumulating copy: the tree is the left fold of the single-operation
\* semantics, and a message of adds leaves every existing node at its position
\* and appends the added components in order.
C2_UpdatesFoldInOrder ==
    UpdateApplied =>
        LET before == props.initialComponents
            us == LastMessage.updates
        IN  /\ components = LeftFold(before, us)
            /\ (\A k \in 1..Len(us) :
                    us[k].operation = "add" /\ us[k].component # NoComponent)
                   => /\ Len(components) = Len(before) + Len(us)
                      /\ \A i \in 1..Len(before) : components[i] = before[i]
                      /\ \A k \in 1..Len(us) :
                             components[Len(before) + k] = us[k].component

\* a two-operation message whose second lookup depends on the first operation:
\* a remove of the only node of an id, then an update of that id
C2_Witness ==
    /\ UpdateApplied
    /\ Len(LastMessage.updates) = 2
    /\ LastMessage.updates[1].operation = "remove"
    /\ LastMessage.updates[2].operation = "update"
    /\ LastMessage.updates[2].component # NoComponent
    /\ LastMessage.updates[1].id = LastMessage.updates[2].id
    /\ Cardinality({i \in 1..Len(props.initialComponents) :
           props.initialComponents[i].id = LastMessage.updates[1].id}) = 1
    /\ Len(components) = Len(props.initialComponents) - 1

\* C3: an update operation whose id matches a root node replaces the first
\* root node with that id in place: the length and every other node are
\* unchanged and the replacement sits at the replaced node's index.  Stated of
\* the last operation of the message, on the tree the earlier ones left.
C3_UpdateReplacesInPlace ==
    (UpdateApplied /\ LastMessage.updates # <<>>) =>
        LET us == LastMessage.updates
            u == us[Len(us)]
            before == LeftFold(props.initialComponents, Front(us))
            k == FirstAt(before, u.id)
        IN  (u.operation = "update" /\ u.component # NoComponent /\ k > 0) =>
                /\ Len(components) = Len(before)
                /\ components[k] = u.component
                /\ \A i \in 1..Len(before) : i # k => components[i] = before[i]

\* an update replaced the first of two nodes of one id by a different node,
\* the second staying where it was
C3_Witness ==
    /\ UpdateApplied
    /\ Len(LastMessage.updates) = 1
    /\ LastMessage.updates[1].operation = "update"
    /\ Len(props.initialComponents) = 2
    /\ props.initialComponents[1].id = LastMessage.updates[1].id
    /\ props.initialComponents[2].id = LastMessage.updates[1].id
    /\ components[1] = LastMessage.updates[1].component
    /\ components[1] # props.initialComponents[1]
    /\ components[2] = props.initialComponents[2]
    /\ components[2] # components[1]

\* the two operations of a message: [first, second]
IsPair(us, first, second) ==
    /\ Len(us) = 2
    /\ us[1].operation = first
    /\ us[2].operation = second
    /\ LET c == IF first = "add" THEN us[1].component ELSE us[2].component
           r == IF first = "add" THEN us[2] ELSE us[1]
       IN  c # NoComponent /\ c.id = r.id

\* how many root nodes of a tree have the id
CountOf(tree, id) == Cardinality({i \in 1..Len(tree) : tree[i].id = id})

AllMiss(tree, us) ==
    /\ us # <<>>
    /\ \A k \in 1..Len(us) :
           /\ us[k].operation \in {"update", "remove"}
           /\ us[k].id \notin IdsOf(tree)

\* C4: an update or remove operation whose id matches no root node is a
\* silent no-op: the tree is unchanged, no error is recorded and the session
\* state does not change.
C4_MissIsSilentNoOp ==
    [][(UpdateApplied' /\ AllMiss(components, LastMessage'.updates))
          => /\ components' = components
             /\ dataModel' = dataModel
             /\ error' = error
             /\ state' = state]_vars

\* a remove of an unknown id was delivered to an instance showing a non-empty
\* tree, no error recorded
C4_Witness ==
    /\ UpdateApplied
    /\ AllMiss(components, LastMessage.updates)
    /\ LastMessage.updates[1].operation = "remove"
    /\ components # <<>>
    /\ state = "connected"
    /\ error = Null

\* C6: the data model changes only when a createSurface is applied, the tree
\* only when a createSurface or an updateComponents is applied; status changes,
\* errors, user actions, agentUrl changes and unmount leave both unchanged.
C6_OnlyReconciliationMutates ==
    [][/\ dataModel' # dataModel => CreateApplied'
       /\ components' # components => (CreateApplied' \/ UpdateApplied')
       /\ UpdateApplied' => dataModel' = dataModel]_vars

\* a user action whose send threw, on an instance holding a tree and a model
\* that messages built
C6_Witness ==
    /\ lastEvent.kind = "action"
    /\ lastEvent.threw
    /\ received # <<>>
    /\ components # <<>>
    /\ dataModel = "m1"

\* C7: the session starts in state connecting, and after every
\* statusChange(s) the session state is s, whatever it was before.
C7_StatusMapsOneToOne ==
    /\ lastEvent.kind = "mount" => state = "connecting"
    /\ lastEvent.kind = "statusChange" => state = lastEvent.status

\* statusChange(connected) arrived after an error had been recorded
C7_Witness ==
    /\ lastEvent.kind = "statusChange"
    /\ lastEvent.status = "connected"
    /\ state = "connected"
    /\ error # Null

\* C8 as stated: the state only follows connecting -> connected,
\* connected -> disconnected and connected -> error.
C8_Original ==
    [][state' # state =>
          <<state, state'>> \in {<<"connecting", "connected">>,
                                 <<"connected", "disconnected">>,
                                 <<"connected", "error">>}]_vars

\* C8 (amended): the session state changes only in a transport handler and
\* follows what the transport reports: statusChange(s) moves it to s from any
\* state, connecting included; an error event or a rejected connect moves it to
\* error from any state; nothing else (a message, a user action, an agentUrl
\* change, unmount) changes it.
C8_StateFollowsTransport ==
    [][state' # state =>
          \/ lastEvent'.kind = "statusChange" /\ state' = lastEvent'.status
          \/ lastEvent'.kind \in {"error", "connectRejected"} /\ state' = "error"]_vars

\* the state is back in connecting, on statusChange(connecting) from the
\* second transport, after an error had been recorded
C8_Witness ==
    /\ lastEvent.kind = "statusChange"
    /\ lastEvent.status = "connecting"
    /\ state = "connecting"
    /\ error # Null
    /\ created = 2

\* C9 as stated: an error event and a rejected connect each force the state
\* to error and record err, and in state error the placeholder carries the
\* message of the recorded error.
C9_Original ==
    /\ lastEvent.kind \in {"error", "connectRejected"}
           => state = "error" /\ error = lastEvent.err
    /\ (state = "error" /\ error # Null)
           => View.region = "error" /\ View.message = Message(error)

\* C9 (amended): an error event and a rejected connect each force the state
\* to error and record err; in state error the placeholder carries the message
\* of the recorded error when that message is not empty, and "Connection
\* failed" when it is empty.
C9_ErrorForcesErrorState ==
    /\ lastEvent.kind \in {"error", "connectRejected"}
           => state = "error" /\ error = lastEvent.err
    /\ (state = "error" /\ error # Null)
           => /\ View.region = "error"
              /\ Message(error) # "" => View.message = Message(error)
              /\ Message(error) = "" => View.message = "Connection failed"

\* the connect of a second transport was rejected: the placeholder shows the
\* message of its error
C9_Witness ==
    /\ lastEvent.kind = "connectRejected"
    /\ lastEvent.err = "e1"
    /\ created = 2
    /\ View.region = "error"
    /\ View.message = "boom 1"

\* the surface the messages delivered so far build, oldest first, from the
\* surface the instance started with
RECURSIVE Expected(_, _)
Expected(p, log) ==
    IF log = <<>>
    THEN [components |-> p.initialComponents, dataModel |-> p.initialDataModel]
    ELSE LET before == Expected(p, Front(log))
             d == log[Len(log)]
         IN  IF d.event = "createSurface" /\ d.message.type = "createSurface"
             THEN [components |-> d.message.components,
                   dataModel |-> IF d.message.dataModel = Undefined THEN EmptyModel
                                 ELSE d.message.dataModel]
             ELSE IF d.event = "updateComponents" /\ d.message.type = "updateComponents"
             THEN [components |-> LeftFold(before.components, d.message.updates),
                   dataModel |-> before.dataModel]
             ELSE before

\* C10: a received createSurface or updateComponents message is applied
\* whatever the session state is: in every state the tree and the model are
\* what the messages received so far build in delivery order, and that tree is
\* the one shown when the state is connected.
C10_MessagesAlwaysApply ==
    LET e == Expected(props, received)
    IN  /\ components = e.components
        /\ dataModel = e.dataModel
        /\ state = "connected" => View.rendered = e.components

\* an updateComponents delivered while the session is in state error changed
\* the tree
C10_Witness ==
    /\ UpdateApplied
    /\ state = "error"
    /\ Len(received) = 2
    /\ components # Expected(props, Front(received)).components

(***************************************************************************)
(* C11..C17: the regions of the render, action dispatch and teardown.      *)
(***************************************************************************)

\* C11: in every reachable state the render is exactly one of four regions,
\* and which one is decided by the state alone: the connecting placeholder
\* iff state = connecting, the error placeholder iff state = error, the
\* disconnected placeholder iff state = disconnected, and the live tree (the
\* nodes of components, and only then any node) iff state = connected.
C11_RegionFollowsState ==
    /\ View.region \in {"connecting", "error", "disconnected", "live"}
    /\ View.region = "connecting" <=> state = "connecting"
    /\ View.region = "error" <=> state = "error"
    /\ View.region = "disconnected" <=> state = "disconnected"
    /\ View.region = "live" <=> state = "connected"
    /\ View.rendered = IF state = "connected" THEN components ELSE <<>>

\* connected with an error on record (a send that threw): the live tree is
\* what is shown, not the error placeholder
C11_Witness ==
    /\ state = "connected"
    /\ error # Null
    /\ lastEvent.kind = "action"
    /\ lastEvent.threw
    /\ View.region = "live"
    /\ View.rendered = components
    /\ components # <<>>

\* C12: for every action a rendered control hands to handleAction, onAction
\* (when the caller gave one) is the first call made, made once and with the
\* action and the context of the control, whether or not the transport is
\* connected and whether or not the send succeeds; the userAction message
\* (surface 'surface-1', the same action and context, the current data model)
\* is sent after it, and exactly when the transport reports itself connected
\* and onAction has returned.
C12_CallbackThenForward ==
    lastEvent.kind = "action" =>
        LET calls == lastEvent.calls
            callback == Call("onAction", Undefined, Undefined, lastEvent.action,
                             lastEvent.componentId, Undefined)
            message == Call("send", "userAction", "surface-1", lastEvent.action,
                            lastEvent.componentId, dataModel)
            attempted == lastEvent.isConnected /\ ~lastEvent.propagated
        IN  /\ lastEvent.called => calls # <<>> /\ calls[1] = callback
            /\ \A i \in 1..Len(calls) : calls[i].fn = "onAction" => i = 1 /\ lastEvent.called
            /\ \A i \in 1..Len(calls) :
                   calls[i].fn = "send"
                       => /\ i = Len(calls)
                          /\ calls[i] = message
                          /\ lastEvent.isConnected
            /\ attempted <=> (calls # <<>> /\ calls[Len(calls)].fn = "send")
            /\ (lastEvent.sent \/ lastEvent.threw) <=> attempted

\* the transport reported itself connected and the send threw: onAction had
\* been called before it, with the action and the id of the button
C12_Witness ==
    /\ lastEvent.kind = "action"
    /\ lastEvent.called
    /\ lastEvent.isConnected
    /\ lastEvent.threw
    /\ Len(lastEvent.calls) = 2
    /\ lastEvent.calls[1].fn = "onAction"
    /\ lastEvent.calls[2].fn = "send"
    /\ lastEvent.calls[2].dataModel = "m1"

\* C13: a transport.send that throws during the dispatch of an action is
\* caught there: no exception reaches the control, the error thrown is the
\* error on record afterwards, and the state, the tree and the data model are
\* what they were, so that the render is the live tree it was before.
C13_SendFailureIsCaught ==
    [][(lastEvent'.kind = "action" /\ lastEvent'.threw)
           => /\ ~lastEvent'.propagated
              /\ lastEvent'.err # Null
              /\ error' = lastEvent'.err
              /\ state' = state
              /\ components' = components
              /\ dataModel' = dataModel
              /\ View'.region = "live"
              /\ View' = View]_vars

\* a send threw e1 on a click on button y of a surface an agent created: the
\* error is on record and the two nodes are still shown
C13_Witness ==
    /\ lastEvent.kind = "action"
    /\ lastEvent.threw
    /\ lastEvent.componentId = "y"
    /\ error = "e1"
    /\ state = "connected"
    /\ Len(received) = 1
    /\ View.rendered = received[1].message.components
    /\ Len(View.rendered) = 2

\* the outward calls named fn among calls
CallsOf(fn, calls) == {i \in 1..Len(calls) : calls[i].fn = fn}

\* C14 as stated: whenever the controller enters the error state, on a
\* transport error event, on statusChange(error) or on a rejected connect,
\* onError is called, once, by the handler that enters it.
C14_OnErrorOnEntry ==
    (/\ state = "error"
     /\ \/ lastEvent.kind \in {"error", "connectRejected"}
        \/ lastEvent.kind = "statusChange" /\ lastEvent.status = "error")
        => Cardinality(CallsOf("onError", lastEvent.calls)) = 1

\* C15: every transport the instance created has been disconnected exactly
\* once when its session has ended (the agentUrl was replaced, or the
\* instance was unmounted), whatever the state, and not at all while it is
\* the transport of the running session: none is disconnected twice, none is
\* left undisconnected.
C15_DisconnectOncePerTransport ==
    /\ DOMAIN disconnectCalls = 1..created
    /\ \A t \in 1..created :
           disconnectCalls[t] = IF t < created \/ ~mounted THEN 1 ELSE 0

\* unmounted in state error after one change of agentUrl: both transports
\* were disconnected, once each
C15_Witness ==
    /\ ~mounted
    /\ created = 2
    /\ state = "error"
    /\ disconnectCalls = <<1, 1>>

\* C16 as stated: once the cleanup has called disconnect on a transport, no
\* statusChange, error, createSurface or updateComponents event that
\* transport delivers changes the state, the error on record, the tree or the
\* data model.
C16_LateEventsIgnored ==
    [][(/\ lastEvent'.kind \in {"statusChange", "error", "createSurface",
                                "updateComponents"}
        /\ lastEvent'.late)
           => UNCHANGED <<state, error, components, dataModel>>]_vars

\* C17 as stated: when the session enters the error state or the
\* disconnected state the previous tree is discarded.
C17_Original ==
    [][(state' \in {"error", "disconnected"} /\ state' # state)
           => components' = <<>>]_vars

\* C17 (amended): in the error state and in the disconnected state no node of
\* the tree is rendered, but the tree and the data model are kept: a step
\* that changes the state changes neither, and the step back to connected
\* renders the tree that was there before it, with no message needed.
C17_TreeHiddenNotDiscarded ==
    [][/\ state' \in {"error", "disconnected"} => View'.rendered = <<>>
       /\ state' # state => components' = components /\ dataModel' = dataModel
       /\ (state' = "connected" /\ state # "connected")
              => View'.rendered = components]_vars

\* a session that started with the tree <<x: text>> and received no message
\* went through the error state (an error is on record, and no button was
\* there to record one from a send) and back to connected: the tree it
\* started with is rendered
C17_Witness ==
    /\ props.initialComponents = <<[id |-> "x", type |-> "text"]>>
    /\ received = <<>>
    /\ error # Null
    /\ lastEvent.kind = "statusChange"
    /\ lastEvent.status = "connected"
    /\ state = "connected"
    /\ View.rendered = props.initialComponents

(***************************************************************************)
(* C18..C20: pointer resolution and the local value of a control           *)
(***************************************************************************)
\* value.startsWith('/'), of the characters of a string
StartsWithSlash(s) == s # <<>> /\ s[1] = "/"

\* C18: resolveValue returns the raw value unchanged when it is not a string
\* or is a string that does not start with '/'; for a string that starts
\* with '/' it returns the value the model holds at that pointer when that
\* value is defined, and the raw string itself otherwise; so the result is
\* undefined only for a raw value that is undefined.
C18_ResolveValueLaws ==
    mapper # Unrendered =>
        LET raw == mapper.component.bound
            paths == Content(mapper.dataModel)
        IN  /\ raw.t # "string" => mapper.resolved = raw
            /\ (raw.t = "string" /\ ~StartsWithSlash(raw.s)) => mapper.resolved = raw
            /\ (raw.t = "string" /\ StartsWithSlash(raw.s))
                   => mapper.resolved =
                          IF raw.s \in DOMAIN paths /\ paths[raw.s] # JsUndefined
                          THEN paths[raw.s] ELSE raw
            /\ raw # JsUndefined => mapper.resolved # JsUndefined

\* the model came to hold '/7' at /a: the property '/a' resolves to the
\* string '/7', which is not resolved a second time
C18_Witness ==
    /\ mapper # Unrendered
    /\ mapper.event.kind = "render"
    /\ mapper.dataModel = "m2"
    /\ mapper.component.bound = JsString(<<"/", "a">>)
    /\ mapper.resolved = JsString(<<"/", "7">>)

\* C19: the local value of a textfield, checkbox, slider or choicepicker is
\* seeded when the instance is constructed, from the resolved bound property;
\* a later render of the mounted instance, with another data model or
\* another node of the same id and kind, and a blur leave it as it is, and it
\* changes only by an input of the user on the control (or with the instance,
\* when the node is torn down and constructed again).
C19_SeededOnceThenUserOnly ==
    /\ mapper # Unrendered
           => mapper.local = InitialValue(mapper.component.type, mapper.dataModel,
                                          mapper.component.bound)
    /\ [][/\ mapper'.event.kind = "construct"
                 => mapper'.local = InitialValue(mapper'.component.type,
                                                 mapper'.dataModel,
                                                 mapper'.component.bound)
          /\ mapper'.event.kind \in {"render", "blur"} => mapper'.local = mapper.local
          /\ mapper'.local # mapper.local
                 => mapper'.event.kind \in {"input", "construct"}]_vars

\* a textfield bound to /7 was constructed when the model held true there
\* and shows 'true'; the model now holds 0 there, for which a construction
\* would show the empty string, and the textfield still shows 'true'
C19_Witness ==
    /\ mapper # Unrendered
    /\ mapper.component.type = "textfield"
    /\ mapper.component.bound = JsString(<<"/", "7">>)
    /\ mapper.event.kind = "render"
    /\ mapper.dataModel = "m1"
    /\ mapper.local = JsString(<<"t", "r", "u", "e">>)
    /\ InitialValue("textfield", mapper.dataModel, mapper.component.bound)
           = JsString(<<>>)

\* the positions of the live tree that hold a textfield
TextFields(cs) == {i \in 1..Len(cs) : cs[i].type = "textfield"}

\* C20 as stated: a textfield bound to a model path and rendered by the
\* session is a control with a local value; after a createSurface that
\* carries it with a new model, the control shows the value the new model
\* holds at the path; an updateComponents that does not replace the node
\* leaves the local value of the control as it was.
C20_ReseedOnCreateSurface ==
    [][/\ (lastEvent'.kind = "createSurface" /\ state' = "connected")
              => \A i \in TextFields(components') :
                     /\ Rendered'[i].tag = "input"
                     /\ Rendered'[i].local =
                            JsString(StringOf(Or(ResolveValue(dataModel',
                                                              ValueProperty(components'[i])),
                                                 JsString(<<>>))))
       /\ (lastEvent'.kind = "updateComponents" /\ state = "connected"
              /\ state' = "connected")
              => \A i \in TextFields(components), j \in TextFields(components') :
                     components'[j] = components[i]
                         => /\ Rendered'[j].tag = "input"
                            /\ Rendered'[j].local = Rendered[i].local]_vars

(***************************************************************************)
(* C21..C30: what is rendered, and what the controls emit                  *)
(***************************************************************************)
\* C21 as stated: while connected, what the session shows for each root node
\* of the tree is what ComponentMapper renders for that node against the
\* data model of the session.
C21_SessionShowsInterpreterOutput ==
    state = "connected"
        => /\ Len(Rendered) = Len(components)
           /\ \A i \in 1..Len(components) :
                  Rendered[i] = MapperOutput(Construct(AsNode(components[i]), dataModel))

\* a property that is a pointer the model has no value for
Misses(model, value) ==
    /\ value.t = "string"
    /\ StartsWithSlash(value.s)
    /\ value.s \notin DOMAIN Content(model)

\* C24 as stated: when a pointer-valued property of the node (its bound
\* value, the items of a list, the options of a choicepicker) is not present
\* in the model, the render completes: no TypeError leaves the render path.
C24_MissIsNeverAFault ==
    (/\ mapper # Unrendered
     /\ \/ Misses(mapper.dataModel, mapper.component.bound)
        \/ Misses(mapper.dataModel, mapper.component.options))
        => MapperOutput(mapper).tag # "TypeError"

\* the kinds ComponentMapper has a branch for, and the spellings the README
\* documents for three of them
RecognisedTypes ==
    {"text", "heading", "button", "container", "divider", "checkbox",
     "choicepicker", "list", "tabs", "slider", "textfield"}
ReadmeSpellings == {"textField", "checkBox", "choicePicker"}

\* C25: a node of a kind that is neither recognised nor documented renders
\* the fallback marker naming its kind, the render does not fail, and no
\* interaction with it emits an action.
C25_UnknownKindFallsBackSilently ==
    (/\ mapper # Unrendered
     /\ mapper.component.type \notin RecognisedTypes \cup ReadmeSpellings)
        => /\ MapperOutput(mapper).tag = "fallback"
           /\ MapperOutput(mapper).marker = mapper.component.type
           /\ mapper.event.emitted = <<>>

\* a mystery-widget with an action set has been clicked
C25_Witness ==
    /\ mapper # Unrendered
    /\ mapper.component.type = "mystery-widget"
    /\ Truthy(mapper.component.action)
    /\ mapper.event.kind = "click"

\* C26 as stated: a node whose type is spelled as the README spells it is
\* rendered as the input control of that kind ('textField' as a text field
\* showing the value its pointer resolves to), not as a fallback.
C26_ReadmeSpellingsAreDispatched ==
    (/\ mapper # Unrendered
     /\ mapper.component.type \in ReadmeSpellings)
        => /\ MapperOutput(mapper).tag
                  = (IF mapper.component.type = "textField" THEN "input"
                     ELSE IF mapper.component.type = "checkBox" THEN "checkbox"
                     ELSE "select")
           /\ MapperOutput(mapper).local # JsUndefined

\* C27 as stated: a rendered tabs node whose defaultValue was absent or named
\* one of its tabs shows exactly one panel, in the simple and in the children
\* mode: when constructed, the panel of the resolved defaultValue, or of the
\* first tab when there is none; after a tab switch, the panel of the tab
\* switched to.
C27_ExactlyOnePanelVisible ==
    (/\ mapper # Unrendered
     /\ mapper.component.type = "tabs"
     /\ TabsMode(mapper.component) # "empty"
     /\ \/ mapper.selected = <<>>
        \/ \E i \in 1..Len(TabTriggers(mapper.component)) :
               TabTriggers(mapper.component)[i] = mapper.selected)
        => LET panels == MapperOutput(mapper).panels
               defaultValue == StringOf(Or(mapper.resolved, JsString(<<>>)))
           IN  /\ Len(panels) = 1
               /\ mapper.event.kind = "construct"
                      => panels[1] = (IF defaultValue = <<>>
                                      THEN TabTriggers(mapper.component)[1]
                                      ELSE defaultValue)
               /\ mapper.event.kind = "tabSwitch" => panels[1] = mapper.selected

\* the field a context of the kind carries besides componentId
KindField(type) ==
    IF type = "button" THEN Undefined
    ELSE IF type = "checkbox" THEN "checked"
    ELSE IF type = "list" THEN "itemId"
    ELSE "value"

\* C22: every action event a control emits carries the id of its node as
\* componentId and, besides it, exactly the field of its kind: none for a
\* button, checked for a checkbox, itemId for a list, value for a textfield,
\* slider, choicepicker and tabs.
C22_ContextNamesNodeAndKindField ==
    mapper # Unrendered
        => \A i \in 1..Len(mapper.event.emitted) :
               LET emission == mapper.event.emitted[i]
               IN  /\ emission.componentId = mapper.component.id
                   /\ emission.field = KindField(mapper.component.type)
                   /\ emission.field = Undefined <=> emission.value = JsUndefined

\* the item 2 of the list y was clicked and the event names y and the item
C22_Witness ==
    /\ mapper # Unrendered
    /\ mapper.component.type = "list"
    /\ mapper.component.id = "y"
    /\ mapper.event.kind = "itemClick"
    /\ Len(mapper.event.emitted) = 1
    /\ mapper.event.emitted[1].value = JsString(<<"2">>)

\* the kinds that have no handler at all
SilentTypes ==
    {"text", "heading", "container", "divider"}
        \cup {type \in PlainTypes : type \notin RecognisedTypes \cup ReadmeSpellings}

\* C29: text, heading, container, divider and unknown kinds never emit; a
\* click on a button emits once, its action or "click" when it has none; a
\* change of a textfield, checkbox, slider, choicepicker or tabs emits iff the
\* action is set; a click on a list item emits iff the action is set and
\* clickable is not false; and nothing but a button emits without an action.
C29_WhichInteractionsEmit ==
    mapper # Unrendered
        => LET node == mapper.component
               event == mapper.event
           IN  /\ node.type \in SilentTypes => event.emitted = <<>>
               /\ (node.type = "button" /\ event.kind = "click")
                      => /\ Len(event.emitted) = 1
                         /\ event.emitted[1].action
                                = (IF Truthy(node.action) THEN StringOf(node.action)
                                   ELSE <<"c", "l", "i", "c", "k">>)
               /\ event.kind \in {"input", "tabSwitch"}
                      => (Len(event.emitted) = 1 <=> Truthy(node.action))
               /\ event.kind = "itemClick"
                      => (Len(event.emitted) = 1
                              <=> Truthy(node.action)
                                      /\ node.clickable # JsBoolean(FALSE))
               /\ (node.type # "button" /\ event.emitted # <<>>)
                      => /\ Truthy(node.action)
                         /\ event.emitted[1].action = StringOf(node.action)

\* an item of a list with an action and no clickable property was clicked,
\* and the click was emitted
C29_Witness ==
    /\ mapper # Unrendered
    /\ mapper.component.type = "list"
    /\ mapper.component.clickable = JsUndefined
    /\ Truthy(mapper.component.action)
    /\ mapper.event.kind = "itemClick"
    /\ Len(mapper.event.emitted) = 1

\* C30: for a textfield with an action, a keystroke emits the action with the
\* value after the keystroke, which becomes the local value; a blur emits the
\* same action with the local value and leaves it as it is; the local value
\* changes by a keystroke only (or with the instance), so that the value of a
\* blur is that of the last keystroke, or the seeded value if there was none.
C30_KeystrokeThenBlurValue ==
    [][(/\ mapper # Unrendered
        /\ mapper.component.type = "textfield"
        /\ Truthy(mapper.component.action))
           => LET emission(value) ==
                      Emission(StringOf(mapper.component.action), mapper.component.id,
                               "value", value)
              IN  /\ mapper'.event.kind = "input"
                         => mapper'.event.emitted = <<emission(mapper'.local)>>
                  /\ mapper'.event.kind = "blur"
                         => /\ mapper'.event.emitted = <<emission(mapper.local)>>
                            /\ mapper'.local = mapper.local
                  /\ mapper'.local # mapper.local
                         => mapper'.event.kind \in {"input", "construct"}]_vars

\* a textfield seeded with 'a' was typed into and then lost the focus: the
\* blur carried the typed value, not the seed
C30_Witness ==
    /\ mapper # Unrendered
    /\ mapper.component.type = "textfield"
    /\ Truthy(mapper.component.action)
    /\ mapper.event.kind = "blur"
    /\ InitialValue("textfield", mapper.dataModel, mapper.component.bound)
           = JsString(<<"a">>)
    /\ mapper.local = JsString(<<"7">>)
    /\ mapper.event.emitted
           = <<Emission(StringOf(mapper.component.action), mapper.component.id,
                        "value", JsString(<<"7">>))>>

\* the ids of the root nodes of the tree are pairwise distinct
DistinctIds(tree) ==
    \A i, j \in 1..Len(tree) : tree[i].id = tree[j].id => i = j

\* C28 as stated: when the tree the session started from and the tree of
\* every createSurface message have pairwise distinct root ids, the root ids
\* of the live tree are pairwise distinct after any message, so that the key
\* of every rendered root is unique.
C28_RootIdsStayDistinct ==
    (/\ DistinctIds(props.initialComponents)
     /\ \A k \in 1..Len(received) :
            received[k].message.type = "createSurface"
                => DistinctIds(received[k].message.components))
        => DistinctIds(components)

\* the outward calls of the clicks of a log, in the order they were made
RECURSIVE CallsMade(_)
CallsMade(log) ==
    IF log = <<>> THEN <<>> ELSE CallsMade(Front(log)) \o log[Len(log)].calls

\* the action and the componentId of each entry of a sequence of calls or of
\* clicks
Named(entries) ==
    [i \in 1..Len(entries) |->
        [action |-> entries[i].action, componentId |-> entries[i].componentId]]

\* C23: the calls of onAction, and the userAction messages handed to the
\* transport, are each in the order of the clicks: the calls of onAction are
\* those of the clicks made with an onAction prop, one each and in that
\* order, and the messages are those of the clicks whose send was attempted
\* (the transport said it was connected and onAction had returned), one each
\* and in that order; nothing is reordered, merged or dropped.
C23_DispatchedInInteractionOrder ==
    LET IsCallback(call) == call.fn = "onAction"
        IsSend(call) == call.fn = "send"
        HasCallback(click) == click.onAction # "unset"
        Attempted(click) == click.isConnected /\ click.onAction # "throws"
    IN  /\ Named(SelectSeq(CallsMade(dispatched), IsCallback))
               = Named(SelectSeq(dispatched, HasCallback))
        /\ Named(SelectSeq(CallsMade(dispatched), IsSend))
               = Named(SelectSeq(dispatched, Attempted))
        /\ \A i \in 1..Len(CallsMade(dispatched)) :
               CallsMade(dispatched)[i].fn \in {"onAction", "send"}

\* button x was clicked twice in a row while connected: onAction and send
\* were called for the first click, then onAction and send for the second
C23_Witness ==
    /\ Len(dispatched) = 2
    /\ dispatched[1].componentId = "x"
    /\ dispatched[2].componentId = "x"
    /\ Len(CallsMade(dispatched)) = 4
    /\ CallsMade(dispatched)[2].fn = "send"
    /\ CallsMade(dispatched)[3].fn = "onAction"
    /\ CallsMade(dispatched)[4].fn = "send"

(***************************************************************************)
(* C31..C38                                                                *)
(***************************************************************************)
\* C31: a change the user makes on a checkbox, slider, choicepicker or
\* textfield makes the new value the local value of the control, with or
\* without an action; with an action, one event is emitted and its context
\* carries that new value, and without one nothing is emitted; the value a
\* checkbox hands over is the negation of its local state before the toggle.
C31_LocalEcho ==
    [][mapper'.event.kind = "input"
           => LET node == mapper.component
                  value == mapper'.event.input
              IN  /\ node.type \in LocalStateTypes
                  /\ mapper'.local = value
                  /\ mapper'.event.emitted
                         = (IF Truthy(node.action)
                            THEN <<Emission(StringOf(node.action), node.id,
                                            KindField(node.type), value)>>
                            ELSE <<>>)
                  /\ node.type = "checkbox"
                         => value.t = "boolean" /\ value.b = ~mapper.local.b]_vars

\* a checkbox without an action, seeded unchecked, was toggled and is checked
C31_Witness ==
    /\ mapper # Unrendered
    /\ mapper.component.type = "checkbox"
    /\ ~Truthy(mapper.component.action)
    /\ mapper.event.kind = "input"
    /\ InitialValue("checkbox", mapper.dataModel, mapper.component.bound)
           = JsBoolean(FALSE)
    /\ mapper.local = JsBoolean(TRUE)
    /\ mapper.event.emitted = <<>>

\* C32: every instance created below a rendered instance, at any depth, in a
\* container or in a tab-content, has the data model of the root as its data
\* model and the onAction of the root as its onAction: a text below the root
\* shows what its pointer resolves to in the model of the root, and a click
\* on a button below the root calls the function the root was given, once,
\* with the id of that button as componentId.
C32_OneModelOneSink ==
    (mapper # Unrendered /\ ~Faults(mapper.component, mapper.dataModel))
        => LET below == Descendants(mapper.component, mapper.dataModel, OnActionProp)
           IN  /\ \A k \in 1..Len(below) :
                      /\ below[k].dataModel = mapper.dataModel
                      /\ below[k].onAction = OnActionProp
                      /\ below[k].component.type = "text"
                             => MapperOutput(Construct(below[k].component,
                                                       below[k].dataModel)).text
                                    = StringOf(Or(ResolveValue(mapper.dataModel,
                                                               below[k].component.bound),
                                                  JsString(<<>>)))
               /\ mapper.event.kind = "descendantClick"
                      => \E k \in 1..Len(below) :
                             LET node == below[k].component
                             IN  /\ mapper.event.input = JsString(<<node.id>>)
                                 /\ node.id # mapper.component.id
                                 /\ node.type = "button"
                                        => /\ Len(mapper.event.below) = 1
                                           /\ mapper.event.below[1].componentId = node.id
                                 /\ node.type # "button" => mapper.event.below = <<>>

\* the button d3, two containers below the root, was clicked, and the text d1
\* beside it shows the value the model of the root holds at /a
C32_Witness ==
    /\ mapper # Unrendered
    /\ mapper.component.type = "container"
    /\ mapper.dataModel = "m1"
    /\ mapper.event.kind = "descendantClick"
    /\ Len(mapper.event.below) = 1
    /\ mapper.event.below[1].componentId = "d3"
    /\ Len(Descendants(mapper.component, mapper.dataModel, OnActionProp)) = 3
    /\ MapperOutput(Construct(Descendants(mapper.component, mapper.dataModel,
                                          OnActionProp)[1].component,
                              mapper.dataModel)).text = <<"a">>

\* the values of the children of a kind, in the order of the children
RECURSIVE ValuesOfKind(_, _)
ValuesOfKind(children, kind) ==
    IF children = <<>> THEN <<>>
    ELSE ValuesOfKind(Front(children), kind)
             \o (IF children[Len(children)].type = kind
                 THEN <<children[Len(children)].value>>
                 ELSE <<>>)

\* C33: for tabs in the children mode the strip is the children of kind
\* tab-trigger, in their order, and the panels are the children of kind
\* tab-content; the panel on screen after a switch to a trigger is the
\* content whose value is the value of the trigger, wherever it stands among
\* the children, and nothing is shown when no content has that value.
C33_ContentFollowsValue ==
    (/\ mapper # Unrendered
     /\ mapper.component.type = "tabs"
     /\ TabsMode(mapper.component) = "children")
        => LET node == mapper.component
               contents == ValuesOfKind(node.children, "tab-content")
               panels == MapperOutput(mapper).panels
           IN  /\ TabTriggers(node) = ValuesOfKind(node.children, "tab-trigger")
               /\ TabContents(node) = contents
               /\ mapper.event.kind = "tabSwitch"
                      => /\ \E i \in 1..Len(TabTriggers(node)) :
                                TabTriggers(node)[i] = mapper.selected
                         /\ \A i \in 1..Len(panels) : panels[i] = mapper.selected
                         /\ Len(panels)
                                = Cardinality({i \in 1..Len(contents) :
                                                  contents[i] = mapper.selected})

\* the trigger of '7', which has no content, was selected on tabs whose only
\* content stands before the triggers: no panel is shown
C33_Witness ==
    /\ mapper # Unrendered
    /\ mapper.component.type = "tabs"
    /\ TabsMode(mapper.component) = "children"
    /\ mapper.component.children[1].type = "tab-content"
    /\ mapper.event.kind = "tabSwitch"
    /\ mapper.selected = <<"7">>
    /\ MapperOutput(mapper).panels = <<>>

\* C34 as stated: a text node whose value property is a path the model holds
\* a value at shows the string form of that value, whatever the value (a
\* string, a number, a boolean), and shows the path itself when the model has
\* no such path.
C34_TextShowsValueAtPath ==
    (/\ mapper # Unrendered
     /\ mapper.component.type = "text"
     /\ mapper.component.bound.t = "string"
     /\ StartsWithSlash(mapper.component.bound.s))
        => LET path == mapper.component.bound.s
               content == Content(mapper.dataModel)
           IN  /\ (path \in DOMAIN content /\ content[path] # JsUndefined)
                      => MapperOutput(mapper).text = StringOf(content[path])
               /\ path \notin DOMAIN content => MapperOutput(mapper).text = path

\* C35 as stated: when a mounted instance is rendered again with a node of
\* the same id and another kind, the render does not fail, and the control
\* of the new kind holds the value it is seeded with from its own node, not
\* the value the control of the old kind held.
C35_LocalValueStaysWithItsControl ==
    [][(/\ mapper # Unrendered
        /\ mapper'.event.kind = "render"
        /\ mapper'.component.id = mapper.component.id
        /\ mapper'.component.type # mapper.component.type)
           => /\ MapperOutput(mapper').tag \notin {"Error", "TypeError"}
              /\ mapper'.local = InitialValue(mapper'.component.type, mapper'.dataModel,
                                              mapper'.component.bound)]_vars

\* C36 as stated: an error on record is never cleared, and in state error
\* the placeholder shows the message of the error on record, and shows
\* "Connection failed" only when no error has been recorded.
C36_Original ==
    state = "error"
        => /\ error # Null => View.message = Message(error)
           /\ View.message = "Connection failed" => error = Null

\* C36 (amended): no error is on record at the start; an error on record is
\* replaced only by the error of a later error event, rejected connect or
\* send that threw, each of which records its error, and is never cleared; in
\* state error the placeholder shows the message of the error on record when
\* that message is not empty, and "Connection failed" when no error was ever
\* recorded or the message of the error on record is empty.
C36_ErrorNeverCleared ==
    /\ error = Null
    /\ [][/\ error # Null => error' # Null
          /\ error' # error
                 => /\ \/ lastEvent'.kind \in {"error", "connectRejected"}
                       \/ lastEvent'.kind = "action" /\ lastEvent'.threw
                    /\ error' = lastEvent'.err
          /\ (\/ lastEvent'.kind \in {"error", "connectRejected"}
              \/ lastEvent'.kind = "action" /\ lastEvent'.threw)
                 => error' = lastEvent'.err /\ error' # Null
          /\ state' = "error"
                 => /\ View'.region = "error"
                    /\ View'.message
                           = (IF error' = Null \/ Message(error') = ""
                              THEN "Connection failed"
                              ELSE Message(error'))]_vars

\* an error was recorded in an earlier episode, the session was connected
\* again, and the transport then reported the status error: the placeholder
\* shows the message of the error recorded before
C36_Witness ==
    /\ lastEvent.kind = "statusChange"
    /\ lastEvent.status = "error"
    /\ state = "error"
    /\ error = "e1"
    /\ View.message = "boom 1"

\* C37: every message handleAction hands to the transport has the type
\* userAction and the surfaceId 'surface-1', whatever surface the createSurface
\* messages applied before it named; the message of a click carries the
\* action and the componentId handed to onAction for that click, and the data
\* model the session holds.
C37_UserActionShape ==
    /\ \A i \in 1..Len(CallsMade(dispatched)) :
           CallsMade(dispatched)[i].fn = "send"
               => /\ CallsMade(dispatched)[i].type = "userAction"
                  /\ CallsMade(dispatched)[i].surfaceId = "surface-1"
    /\ lastEvent.kind = "action"
           => \A i \in 1..Len(lastEvent.calls) :
                  lastEvent.calls[i].fn = "send"
                      => /\ lastEvent.calls[i].dataModel = dataModel
                         /\ lastEvent.calls[i].action = lastEvent.action
                         /\ lastEvent.calls[i].componentId = lastEvent.componentId
                         /\ lastEvent.called
                                => /\ lastEvent.calls[1].fn = "onAction"
                                   /\ lastEvent.calls[1].action = lastEvent.calls[i].action
                                   /\ lastEvent.calls[1].componentId
                                          = lastEvent.calls[i].componentId

\* a createSurface naming the surface s2, with the model m2, was applied,
\* and the click made after it was sent for surface-1 with the model m2
C37_Witness ==
    /\ lastEvent.kind = "action"
    /\ lastEvent.sent
    /\ Len(received) = 1
    /\ received[1].message.surfaceId = "s2"
    /\ dataModel = "m2"
    /\ lastEvent.calls[Len(lastEvent.calls)].surfaceId = "surface-1"
    /\ lastEvent.calls[Len(lastEvent.calls)].dataModel = "m2"

\* the transports created and not yet disconnected
Live == {t \in 1..created : disconnectCalls[t] = 0}

\* C38: at most one transport the instance created is live: the one created
\* last while the instance is mounted, none after; a change of agentUrl
\* leaves the old transport disconnected and the new one, and only it, live
\* and connecting; and handleAction calls send on the transport created last
\* only, which is live.
C38_AtMostOneLiveTransport ==
    /\ Live = {1} /\ transport = 1
    /\ [][/\ Cardinality(Live') <= 1
          /\ Live' = (IF mounted' THEN {created'} ELSE {})
          /\ created' # created
                 => /\ created' = created + 1
                    /\ created \notin Live'
                    /\ transport' = created'
                    /\ created' \in connectPending'
          /\ (lastEvent'.kind = "action" /\ (lastEvent'.sent \/ lastEvent'.threw))
                 => /\ transport' = created'
                    /\ transport' \in Live']_vars

\* after a change of agentUrl a click was sent: the first transport is
\* disconnected, the second is the live one and the one send was called on
C38_Witness ==
    /\ created = 2
    /\ transport = 2
    /\ disconnectCalls = <<1, 0>>
    /\ lastEvent.kind = "action"
    /\ lastEvent.sent

====
